---- MODULE Spec2Model ----
(***************************************************************************)
(* Verification model of tokscale's pricing core (packages/core/src/pricing) *)
(* and aggregation engine (core/src/aggregator.rs).  Its state machines:    *)
(*   SpecResolve, SpecPrefer, SpecCompound - the pricing resolution engine *)
(*                 (lookup.rs) over three families of catalogs and ids     *)
(*   SpecContains - contains_model_id on keys and ids                      *)
(*   SpecMemo    - the memo of PricingLookup::lookup under threads         *)
(*   SpecCost    - PricingLookup::calculate_cost                           *)
(*   SpecCache   - the TTL file cache (cache.rs)                           *)
(*   SpecFetch, SpecFanout, SpecFanoutLive - the two fetchers (litellm.rs, *)
(*                 openrouter.rs), the last under a fair scheduler         *)
(*   Spec        - the pricing service over its fetchers (mod.rs)          *)
(*   SpecAggregate, SpecIntensity - aggregate_by_date (aggregator.rs)      *)
(*   SpecGraph   - a pricing-aware graph call (lib.rs, aggregator.rs)      *)
(* Strings are TLA+ strings; Len, SubSeq and \o act on them character-wise.*)
(***************************************************************************)
EXTENDS Integers, Sequences, FiniteSets, TLC

VARIABLES
    \* ---- resolution engine: fields of PricingLookup plus the last query
    litellm, openrouter, litellm_keys, openrouter_keys,
    litellm_lower, openrouter_lower, openrouter_model_part,
    query, answer,
    \* ---- the memo of lookup (lookup_cache) and the lookup calls in progress
    lookup_cache, calls,
    \* ---- cache store: the clock, the cache file, the temp file of a save in
    \* progress, the position of that save, and the last load
    now, ticks, target, tmp, save, loaded,
    \* ---- pricing service: the PRICING_SERVICE cell and its semaphore, each
    \* caller's position, call budget and last return value, each caller's
    \* litellm::fetch and openrouter::fetch_all_models in flight, what
    \* load_cached would return for either source, and what the network may answer
    cell, sem, pc, budget, ret, lit, orr, disk, env,
    \* ---- usage accounting: the last calculate_cost call with its outcome; the
    \* message vector given to aggregate_by_date, the local date maps of the
    \* parallel fold and reduce, and the contributions it returns
    bill, messages, segments, contributions,
    \* ---- and what generate_graph_result made of the contributions
    graph

vars_cache == <<now, ticks, target, tmp, save, loaded>>

vars_service == <<cell, sem, pc, budget, ret, lit, orr, disk, env>>

vars_usage == <<bill, messages, segments, contributions, graph>>

vars_resolve == <<litellm, openrouter, litellm_keys, openrouter_keys,
                  litellm_lower, openrouter_lower, openrouter_model_part,
                  query, answer, lookup_cache, calls>>

\* Option<T> is a sequence of length at most one.
None == <<>>
Some(x) == <<x>>
IsSome(o) == Len(o) = 1

\* No cost computed and no aggregation in progress.
IdleUsage ==
    /\ bill = <<>> /\ messages = <<>> /\ segments = <<>> /\ contributions = <<>>
    /\ graph = <<>>
Unwrap(o) == o[1]

(***************************************************************************)
(* Character and string primitives (std::str)                              *)
(***************************************************************************)
UpperChars == {"A","B","C","D","E","F","G","H","I","J","K","L","M",
               "N","O","P","Q","R","S","T","U","V","W","X","Y","Z"}
LowerChars == {"a","b","c","d","e","f","g","h","i","j","k","l","m",
               "n","o","p","q","r","s","t","u","v","w","x","y","z"}
DigitChars == {"0","1","2","3","4","5","6","7","8","9"}

LowerOf == [c \in UpperChars |->
    CASE c = "A" -> "a" [] c = "B" -> "b" [] c = "C" -> "c" [] c = "D" -> "d"
      [] c = "E" -> "e" [] c = "F" -> "f" [] c = "G" -> "g" [] c = "H" -> "h"
      [] c = "I" -> "i" [] c = "J" -> "j" [] c = "K" -> "k" [] c = "L" -> "l"
      [] c = "M" -> "m" [] c = "N" -> "n" [] c = "O" -> "o" [] c = "P" -> "p"
      [] c = "Q" -> "q" [] c = "R" -> "r" [] c = "S" -> "s" [] c = "T" -> "t"
      [] c = "U" -> "u" [] c = "V" -> "v" [] c = "W" -> "w" [] c = "X" -> "x"
      [] c = "Y" -> "y" [] c = "Z" -> "z"]

CharAt(s, i) == SubSeq(s, i, i)

is_alphanumeric(c) == c \in UpperChars \cup LowerChars \cup DigitChars
is_ascii_digit(c) == c \in DigitChars

RECURSIVE to_lowercase(_)
to_lowercase(s) ==
    IF s = "" THEN ""
    ELSE LET c == Head(s)
         IN (IF c \in UpperChars THEN LowerOf[c] ELSE c) \o to_lowercase(Tail(s))

starts_with(s, p) == Len(p) <= Len(s) /\ SubSeq(s, 1, Len(p)) = p
ends_with(s, p) == Len(p) <= Len(s) /\ SubSeq(s, Len(s) - Len(p) + 1, Len(s)) = p

\* Positions (1-based) at which pat occurs in s.
Occurrences(s, pat) ==
    {i \in 1..(Len(s) - Len(pat) + 1) : SubSeq(s, i, i + Len(pat) - 1) = pat}
contains(s, pat) == Occurrences(s, pat) # {}
Min(S) == CHOOSE m \in S : \A n \in S : m <= n
Max(S) == CHOOSE m \in S : \A n \in S : m >= n
\* str::find : the first occurrence, or None.
find(s, pat) == IF contains(s, pat) THEN Some(Min(Occurrences(s, pat))) ELSE None

\* s.split('/').last()
split_last(s, sep) ==
    LET P == Occurrences(s, sep)
    IN IF P = {} THEN s ELSE SubSeq(s, Max(P) + 1, Len(s))

\* s.split(|c| c is one of seps).next()
split_first(s, seps) ==
    LET P == {i \in 1..Len(s) : CharAt(s, i) \in seps}
    IN IF P = {} THEN s ELSE SubSeq(s, 1, Min(P) - 1)

(***************************************************************************)
(* Static tables of lookup.rs and aliases.rs                               *)
(***************************************************************************)
PROVIDER_PREFIXES == <<"openai/", "anthropic/", "google/", "meta-llama/", "mistralai/",
                       "deepseek/", "qwen/", "cohere/", "perplexity/", "x-ai/">>
ORIGINAL_PROVIDER_PREFIXES == {"x-ai/", "xai/", "anthropic/", "openai/", "google/",
    "meta-llama/", "mistralai/", "deepseek/", "z-ai/", "qwen/", "cohere/",
    "perplexity/", "moonshotai/"}
RESELLER_PROVIDER_PREFIXES == {"azure/", "azure_ai/", "bedrock/", "vertex_ai/",
    "together/", "together_ai/", "fireworks_ai/", "groq/", "openrouter/"}
FUZZY_BLOCKLIST == {"auto", "mini", "chat", "base"}
MIN_FUZZY_MATCH_LEN == 5
TIER_SUFFIXES == <<"-xhigh", "-low", "-high", "-medium", "-free",
                   ":low", ":high", ":medium", ":free">>
FALLBACK_SUFFIXES == <<"-codex", "-codex-max">>
MODEL_ALIASES == [a \in {"big-pickle", "big pickle", "bigpickle"} |-> "glm-4.7"]

resolve_alias(model_id) ==
    LET l == to_lowercase(model_id)
    IN IF l \in DOMAIN MODEL_ALIASES THEN Some(MODEL_ALIASES[l]) ELSE None

(***************************************************************************)
(* Pure helpers of lookup.rs                                               *)
(***************************************************************************)
FamilyList == <<"gpt-5", "gpt-4.1", "gpt-4o", "gpt-4", "o3", "o4",
                "opus", "sonnet", "haiku", "claude",
                "gemini-3", "gemini-2.5", "gemini-2", "gemini",
                "llama", "mistral", "deepseek", "qwen">>

extract_model_family(model_id) ==
    LET lower == to_lowercase(model_id)
        hits == {i \in 1..Len(FamilyList) : contains(lower, FamilyList[i])}
    IN IF hits # {} THEN FamilyList[Min(hits)]
       ELSE split_first(lower, {"-", "_", "."})

family_matches(key, family) == family = "" \/ contains(key, family)

contains_model_id(key, model_id) ==
    LET f == find(key, model_id)
    IN IF IsSome(f)
       THEN LET pos == Unwrap(f)
                before_ok == pos = 1 \/ ~is_alphanumeric(CharAt(key, pos - 1))
                after_pos == pos + Len(model_id)
                after_ok == after_pos = Len(key) + 1
                            \/ ~is_alphanumeric(CharAt(key, after_pos))
            IN before_ok /\ after_ok
       ELSE FALSE

normalize_model_name(model_id) ==
    LET lower == to_lowercase(model_id)
        has(p) == contains(lower, p)
    IN IF has("opus") /\ (has("4.5") \/ has("4-5")) THEN Some("claude-opus-4-5")
       ELSE IF has("opus") /\ has("4") THEN Some("claude-opus-4")
       ELSE IF has("sonnet") /\ (has("4.5") \/ has("4-5")) THEN Some("claude-sonnet-4-5")
       ELSE IF has("sonnet") /\ has("4") /\ ~has("3.") /\ ~has("3-")
            THEN Some("claude-sonnet-4")
       ELSE IF has("sonnet") /\ (has("3.7") \/ has("3-7")) THEN Some("claude-3-7-sonnet")
       ELSE IF has("sonnet") /\ (has("3.5") \/ has("3-5")) THEN Some("claude-3.5-sonnet")
       ELSE IF has("haiku") /\ (has("4.5") \/ has("4-5")) THEN Some("claude-haiku-4-5")
       ELSE IF has("haiku") /\ (has("3.5") \/ has("3-5")) THEN Some("claude-3.5-haiku")
       ELSE None

\* TRUE iff the hyphen at position i of s is rewritten to a dot.
VersionHyphen(s, i) ==
    /\ CharAt(s, i) = "-"
    /\ i > 1
    /\ i < Len(s)
    /\ is_ascii_digit(CharAt(s, i - 1))
    /\ is_ascii_digit(CharAt(s, i + 1))
    /\ LET is_multi_digit_before == i >= 3 /\ is_ascii_digit(CharAt(s, i - 2))
           is_multi_digit_after == i + 2 <= Len(s) /\ is_ascii_digit(CharAt(s, i + 2))
       IN ~(is_multi_digit_before \/ is_multi_digit_after)

RECURSIVE RewriteFrom(_, _)
RewriteFrom(s, i) ==
    IF i > Len(s) THEN ""
    ELSE (IF VersionHyphen(s, i) THEN "." ELSE CharAt(s, i)) \o RewriteFrom(s, i + 1)

normalize_version_separator(model_id) ==
    IF \E i \in 1..Len(model_id) : VersionHyphen(model_id, i)
    THEN Some(RewriteFrom(model_id, 1))
    ELSE None

is_fuzzy_eligible(model_id) ==
    IF Len(model_id) < MIN_FUZZY_MATCH_LEN THEN FALSE
    ELSE model_id \notin FUZZY_BLOCKLIST

\* The first suffix of the list (in list order) that ends s is stripped.
StripFirst(s, suffixes) ==
    LET hits == {i \in 1..Len(suffixes) : ends_with(s, suffixes[i])}
    IN IF hits = {} THEN None
       ELSE Some(SubSeq(s, 1, Len(s) - Len(suffixes[Min(hits)])))

strip_tier_suffix(model_id) == StripFirst(model_id, TIER_SUFFIXES)

\* FALLBACK_SUFFIXES stably sorted by length, longest first.
SortedFallbackSuffixes == <<"-codex-max", "-codex">>
strip_fallback_suffix(model_id) == StripFirst(model_id, SortedFallbackSuffixes)

is_original_provider(key) ==
    \E p \in ORIGINAL_PROVIDER_PREFIXES : starts_with(to_lowercase(key), p)
is_reseller_provider(key) ==
    \E p \in RESELLER_PROVIDER_PREFIXES : starts_with(to_lowercase(key), p)

LookupResult(dataset, source, key) ==
    [pricing |-> dataset[key], source |-> source, matched_key |-> key]

\* A selection that takes the first candidate whatever its provider.
select_first_match(matches, dataset, source) ==
    IF Len(matches) = 0 THEN None
    ELSE Some(LookupResult(dataset, source, matches[1]))

\* matches is a sequence of keys in key-list order.
select_best_match(matches, dataset, source) ==
    LET orig == {i \in 1..Len(matches) : is_original_provider(matches[i])}
        nonres == {i \in 1..Len(matches) : ~is_reseller_provider(matches[i])}
    IN IF Len(matches) = 0 THEN None
       ELSE IF orig # {} THEN Some(LookupResult(dataset, source, matches[Min(orig)]))
       ELSE IF nonres # {} THEN Some(LookupResult(dataset, source, matches[Min(nonres)]))
       ELSE Some(LookupResult(dataset, source, matches[1]))

(***************************************************************************)
(* PricingLookup: construction and the match steps.  An engine e is the    *)
(* record of the struct's fields.                                          *)
(***************************************************************************)
\* Vec of the map's keys after sort_by(|a, b| b.len().cmp(&a.len())): the sort
\* is stable over the hash map's iteration order, so every arrangement that is
\* non-increasing in length can be produced.
SortedKeyLists(S) ==
    {s \in [1..Cardinality(S) -> S] :
        /\ \A i, j \in 1..Cardinality(S) : i # j => s[i] # s[j]
        /\ \A i, j \in 1..Cardinality(S) : i < j => Len(s[i]) >= Len(s[j])}

\* for key in keys { map.insert(key.to_lowercase(), key) } : the last wins.
LowerIndex(keys) ==
    [l \in {to_lowercase(keys[i]) : i \in 1..Len(keys)} |->
        keys[Max({i \in 1..Len(keys) : to_lowercase(keys[i]) = l})]]

HasProvider(key) == split_last(to_lowercase(key), "/") # to_lowercase(key)
ModelPart(key) == split_last(to_lowercase(key), "/")

ModelPartIndex(keys) ==
    [m \in {ModelPart(keys[i]) : i \in {j \in 1..Len(keys) : HasProvider(keys[j])}} |->
        keys[Max({i \in 1..Len(keys) : HasProvider(keys[i]) /\ ModelPart(keys[i]) = m})]]

new(l_data, o_data, l_keys, o_keys) ==
    [litellm |-> l_data, openrouter |-> o_data,
     litellm_keys |-> l_keys, openrouter_keys |-> o_keys,
     litellm_lower |-> LowerIndex(l_keys),
     openrouter_lower |-> LowerIndex(o_keys),
     openrouter_model_part |-> ModelPartIndex(o_keys)]

exact_match_litellm(e, model_id) ==
    IF model_id \in DOMAIN e.litellm_lower
    THEN Some(LookupResult(e.litellm, "LiteLLM", e.litellm_lower[model_id]))
    ELSE None

exact_match_openrouter(e, model_id) ==
    IF model_id \in DOMAIN e.openrouter_lower
    THEN Some(LookupResult(e.openrouter, "OpenRouter", e.openrouter_lower[model_id]))
    ELSE IF model_id \in DOMAIN e.openrouter_model_part
    THEN Some(LookupResult(e.openrouter, "OpenRouter", e.openrouter_model_part[model_id]))
    ELSE None

PrefixMatch(dataset, index, source, model_id) ==
    LET hits == {i \in 1..Len(PROVIDER_PREFIXES) :
                    (PROVIDER_PREFIXES[i] \o model_id) \in DOMAIN index}
    IN IF hits = {} THEN None
       ELSE Some(LookupResult(dataset, source,
                              index[PROVIDER_PREFIXES[Min(hits)] \o model_id]))

prefix_match_litellm(e, model_id) ==
    PrefixMatch(e.litellm, e.litellm_lower, "LiteLLM", model_id)
prefix_match_openrouter(e, model_id) ==
    PrefixMatch(e.openrouter, e.openrouter_lower, "OpenRouter", model_id)

fuzzy_match_litellm(e, model_id) ==
    LET family == extract_model_family(model_id)
        family_matches_list ==
            SelectSeq(e.litellm_keys,
                      LAMBDA key : /\ family_matches(to_lowercase(key), family)
                                   /\ contains_model_id(to_lowercase(key), model_id))
        all_matches ==
            SelectSeq(e.litellm_keys,
                      LAMBDA key : contains_model_id(to_lowercase(key), model_id))
        first == select_best_match(family_matches_list, e.litellm, "LiteLLM")
    IN IF IsSome(first) THEN first
       ELSE select_best_match(all_matches, e.litellm, "LiteLLM")

fuzzy_match_openrouter(e, model_id) ==
    LET family == extract_model_family(model_id)
        family_matches_list ==
            SelectSeq(e.openrouter_keys,
                      LAMBDA key : /\ family_matches(ModelPart(key), family)
                                   /\ contains_model_id(ModelPart(key), model_id))
        all_matches ==
            SelectSeq(e.openrouter_keys,
                      LAMBDA key : contains_model_id(ModelPart(key), model_id))
        first == select_best_match(family_matches_list, e.openrouter, "OpenRouter")
    IN IF IsSome(first) THEN first
       ELSE select_best_match(all_matches, e.openrouter, "OpenRouter")

\* The first Some of a sequence of options, else None.
RECURSIVE FirstSome(_)
FirstSome(opts) ==
    IF Len(opts) = 0 THEN None
    ELSE IF IsSome(Head(opts)) THEN Head(opts) ELSE FirstSome(Tail(opts))

\* provider preference between the two catalogs' fuzzy candidates
PreferBetween(litellm_result, openrouter_result) ==
    IF IsSome(litellm_result) /\ IsSome(openrouter_result)
    THEN LET l_is_original == is_original_provider(Unwrap(litellm_result).matched_key)
             o_is_original == is_original_provider(Unwrap(openrouter_result).matched_key)
             l_is_reseller == is_reseller_provider(Unwrap(litellm_result).matched_key)
             o_is_reseller == is_reseller_provider(Unwrap(openrouter_result).matched_key)
         IN IF o_is_original /\ ~l_is_original THEN openrouter_result
            ELSE IF l_is_original /\ ~o_is_original THEN litellm_result
            ELSE IF ~l_is_reseller /\ o_is_reseller THEN litellm_result
            ELSE IF ~o_is_reseller /\ l_is_reseller THEN openrouter_result
            ELSE litellm_result
    ELSE IF IsSome(litellm_result) THEN litellm_result
    ELSE openrouter_result

\* lookup_auto up to the fuzzy step: the exact and the prefix matches.
ExactStage(e, model_id) ==
    LET vn == normalize_version_separator(model_id)
        nm == normalize_model_name(model_id)
    IN FirstSome(
            <<exact_match_litellm(e, model_id), exact_match_openrouter(e, model_id)>>
            \o (IF IsSome(vn) THEN <<exact_match_litellm(e, Unwrap(vn)),
                                     exact_match_openrouter(e, Unwrap(vn))>> ELSE <<>>)
            \o (IF IsSome(nm) THEN <<exact_match_litellm(e, Unwrap(nm)),
                                     exact_match_openrouter(e, Unwrap(nm))>> ELSE <<>>)
            \o <<prefix_match_litellm(e, model_id), prefix_match_openrouter(e, model_id)>>
            \o (IF IsSome(vn) THEN <<prefix_match_litellm(e, Unwrap(vn)),
                                     prefix_match_openrouter(e, Unwrap(vn))>> ELSE <<>>))

lookup_auto(e, model_id) ==
    LET exact == ExactStage(e, model_id)
    IN IF IsSome(exact) THEN exact
       ELSE IF ~is_fuzzy_eligible(model_id) THEN None
       ELSE PreferBetween(fuzzy_match_litellm(e, model_id),
                          fuzzy_match_openrouter(e, model_id))

lookup_litellm_only(e, model_id) ==
    LET vn == normalize_version_separator(model_id)
        nm == normalize_model_name(model_id)
    IN FirstSome(
        <<exact_match_litellm(e, model_id)>>
        \o (IF IsSome(vn) THEN <<exact_match_litellm(e, Unwrap(vn))>> ELSE <<>>)
        \o (IF IsSome(nm) THEN <<exact_match_litellm(e, Unwrap(nm))>> ELSE <<>>)
        \o <<prefix_match_litellm(e, model_id)>>
        \o (IF IsSome(vn) THEN <<prefix_match_litellm(e, Unwrap(vn))>> ELSE <<>>)
        \o (IF is_fuzzy_eligible(model_id)
            THEN <<fuzzy_match_litellm(e, model_id)>> ELSE <<>>))

lookup_openrouter_only(e, model_id) ==
    LET vn == normalize_version_separator(model_id)
        nm == normalize_model_name(model_id)
    IN FirstSome(
        <<exact_match_openrouter(e, model_id)>>
        \o (IF IsSome(vn) THEN <<exact_match_openrouter(e, Unwrap(vn))>> ELSE <<>>)
        \o (IF IsSome(nm) THEN <<exact_match_openrouter(e, Unwrap(nm))>> ELSE <<>>)
        \o <<prefix_match_openrouter(e, model_id)>>
        \o (IF IsSome(vn) THEN <<prefix_match_openrouter(e, Unwrap(vn))>> ELSE <<>>)
        \o (IF is_fuzzy_eligible(model_id)
            THEN <<fuzzy_match_openrouter(e, model_id)>> ELSE <<>>))

\* force_source is None, Some("litellm") or Some("openrouter"); any other
\* forced name falls through to lookup_auto.
do_lookup(e, force_source, id) ==
    IF force_source = Some("litellm") THEN lookup_litellm_only(e, id)
    ELSE IF force_source = Some("openrouter") THEN lookup_openrouter_only(e, id)
    ELSE lookup_auto(e, id)

\* lookup_with_source with one level of suffix stripping only.
lookup_with_source_single_strip(e, model_id, force_source) ==
    LET alias == resolve_alias(model_id)
        canonical == IF IsSome(alias) THEN Unwrap(alias) ELSE model_id
        lower == to_lowercase(canonical)
        tier == strip_tier_suffix(lower)
        fb == strip_fallback_suffix(lower)
        try(o) == IF IsSome(o) THEN <<do_lookup(e, force_source, Unwrap(o))>> ELSE <<>>
    IN FirstSome(<<do_lookup(e, force_source, lower)>> \o try(tier) \o try(fb))

\* lookup_with_source trying the stripped ids before the id itself.
lookup_with_source_stripped_first(e, model_id, force_source) ==
    LET alias == resolve_alias(model_id)
        canonical == IF IsSome(alias) THEN Unwrap(alias) ELSE model_id
        lower == to_lowercase(canonical)
        tier == strip_tier_suffix(lower)
        fb == strip_fallback_suffix(lower)
        tier_fb == IF IsSome(tier) THEN strip_fallback_suffix(Unwrap(tier)) ELSE None
        fb_tier == IF IsSome(fb) THEN strip_tier_suffix(Unwrap(fb)) ELSE None
        try(o) == IF IsSome(o) THEN <<do_lookup(e, force_source, Unwrap(o))>> ELSE <<>>
    IN FirstSome(try(tier) \o try(tier_fb) \o try(fb) \o try(fb_tier)
                 \o <<do_lookup(e, force_source, lower)>>)

lookup_with_source(e, model_id, force_source) ==
    LET alias == resolve_alias(model_id)
        canonical == IF IsSome(alias) THEN Unwrap(alias) ELSE model_id
        lower == to_lowercase(canonical)
        tier == strip_tier_suffix(lower)
        fb == strip_fallback_suffix(lower)
        tier_fb == IF IsSome(tier) THEN strip_fallback_suffix(Unwrap(tier)) ELSE None
        fb_tier == IF IsSome(fb) THEN strip_tier_suffix(Unwrap(fb)) ELSE None
        try(o) == IF IsSome(o) THEN <<do_lookup(e, force_source, Unwrap(o))>> ELSE <<>>
    IN FirstSome(<<do_lookup(e, force_source, lower)>>
                 \o try(tier) \o try(tier_fb) \o try(fb) \o try(fb_tier))

(***************************************************************************)
(* Pricing service and fetchers (mod.rs, litellm.rs, openrouter.rs)        *)
(***************************************************************************)
NumCallers == 2
Callers == 1..NumCallers

\* A process that never touches the pricing service.
IdleService ==
    /\ cell = None
    /\ sem = [permits |-> 1, closed |-> FALSE]
    /\ pc = <<>> /\ budget = <<>> /\ ret = <<>> /\ lit = <<>> /\ orr = <<>>
    /\ disk = <<>> /\ env = <<>>

MAX_RETRIES == 3
INITIAL_BACKOFF_MS == 200
MAX_CONCURRENT_REQUESTS == 10
TOO_MANY_REQUESTS == 429

\* What one HTTP request ends in: a status code, or NetErr when send() fails.
NetErr == 0
is_server_error(status) == status \in 500..599
is_success(status) == status \in 200..299
Retryable(status) == is_server_error(status) \/ status = TOO_MANY_REQUESTS

\* INITIAL_BACKOFF_MS * (1 << attempt)
Backoff(attempt) == INITIAL_BACKOFF_MS * (2 ^ attempt)

\* The sleep after a failed attempt: none after the last one.
WaitsAfter(waits, attempt) ==
    IF attempt < MAX_RETRIES - 1 THEN Append(waits, Backoff(attempt)) ELSE waits

\* A response body: ok is FALSE when the top level does not parse at all;
\* entries maps each model id of the body to the kind of its pricing object.
Body(ok, entries) == [ok |-> ok, entries |-> entries]
Malformed == Body(FALSE, <<>>)

\* response.json::<HashMap<String, ModelPricing>>() : one pricing object with a
\* non-numeric price fails the whole map; a negative number is an f64 like any.
ParseDataset(body) ==
    IF body.ok /\ \A k \in DOMAIN body.entries : body.entries[k] # "non_numeric"
    THEN Some(body.entries)
    ELSE None

FreshFetch == [pc |-> "cache", attempt |-> 0, last_error |-> None, hist |-> <<>>,
               waits |-> <<>>, body |-> None, tasks |-> <<>>,
               permits |-> MAX_CONCURRENT_REQUESTS, saved |-> FALSE,
               result |-> "none", data |-> <<>>]
IdleFetch == [FreshFetch EXCEPT !.pc = "idle"]

Done(f, result, data) == [f EXCEPT !.pc = "done", !.result = result, !.data = data]

\* let _ = cache::save_cache(..): the entry is replaced unless the save fails.
AfterSave(source, data, saved) ==
    IF saved THEN [disk EXCEPT ![source] = Some(data)] ELSE disk

(***************************************************************************)
(* litellm::fetch of caller c                                              *)
(***************************************************************************)
\* fetch without the look at the cache: the request is sent in any case.
LitCacheIgnored(c) ==
    /\ pc[c] = "init" /\ lit[c].pc = "cache"
    /\ lit' = [lit EXCEPT ![c].pc = "request"]
    /\ UNCHANGED <<cell, sem, pc, budget, ret, orr, disk, env, vars_resolve, vars_cache, vars_usage>>

\* if let Some(cached) = load_cached() { return Ok(cached) }
LitCache(c) ==
    /\ pc[c] = "init" /\ lit[c].pc = "cache"
    /\ lit' = [lit EXCEPT ![c] =
                 IF IsSome(disk.litellm) THEN Done(@, "Ok", Unwrap(disk.litellm))
                 ELSE [@ EXCEPT !.pc = "request"]]
    /\ UNCHANGED <<cell, sem, pc, budget, ret, orr, disk, env, vars_resolve, vars_cache, vars_usage>>

\* The fetch once the for loop has run `attempt` iterations without returning.
LitLoopEnd(f) ==
    IF f.attempt < MAX_RETRIES THEN f
    ELSE Done(f, IF IsSome(f.last_error) THEN "Err" ELSE "Panic", <<>>)

\* One iteration of `for attempt in 0..MAX_RETRIES`: the request, its outcome,
\* the handling of it and the sleep before the next iteration.
LitRequest(c) ==
    /\ pc[c] = "init" /\ lit[c].pc = "request"
    /\ \E status \in env.http, body \in env.lit_bodies, saved \in BOOLEAN :
        LET f == [lit[c] EXCEPT !.hist = Append(@, status)]
            parsed == ParseDataset(body)
        IN IF status = NetErr
           THEN /\ lit' = [lit EXCEPT ![c] = LitLoopEnd(
                             [f EXCEPT !.last_error = Some("net"),
                                       !.waits = WaitsAfter(@, f.attempt),
                                       !.attempt = @ + 1])]
                /\ disk' = disk
           ELSE IF Retryable(status)
           THEN /\ lit' = [lit EXCEPT ![c] = LitLoopEnd(
                             [f EXCEPT !.waits = WaitsAfter(@, f.attempt),
                                       !.attempt = @ + 1])]
                /\ disk' = disk
           ELSE IF ~is_success(status)
           THEN /\ lit' = [lit EXCEPT ![c] = Done(f, "Err", <<>>)]
                /\ disk' = disk
           ELSE IF IsSome(parsed)
           THEN /\ lit' = [lit EXCEPT ![c] =
                             Done([f EXCEPT !.body = Some(body), !.saved = saved],
                                  "Ok", Unwrap(parsed))]
                /\ disk' = AfterSave("litellm", Unwrap(parsed), saved)
           ELSE /\ lit' = [lit EXCEPT ![c] = Done([f EXCEPT !.body = Some(body)], "Err", <<>>)]
                /\ disk' = disk
    /\ UNCHANGED <<cell, sem, pc, budget, ret, orr, env, vars_resolve, vars_cache, vars_usage>>

(***************************************************************************)
(* openrouter::fetch_all_models of caller c                                *)
(***************************************************************************)
AuthorProviders ==
    [prefix \in {"z-ai", "x-ai", "anthropic", "openai", "google", "meta-llama", "mistralai",
                 "deepseek", "qwen", "cohere", "perplexity", "moonshotai"} |->
        CASE prefix = "z-ai" -> "Z.AI"
          [] prefix = "x-ai" -> "xAI"
          [] prefix = "anthropic" -> "Anthropic"
          [] prefix = "openai" -> "OpenAI"
          [] prefix = "google" -> "Google"
          [] prefix = "meta-llama" -> "Meta"
          [] prefix = "mistralai" -> "Mistral"
          [] prefix = "deepseek" -> "DeepSeek"
          [] prefix = "qwen" -> "Alibaba"
          [] prefix = "cohere" -> "Cohere"
          [] prefix = "perplexity" -> "Perplexity"
          [] OTHER -> "Moonshot AI"]

\* The provider of the lower-cased text before the first '/', when it is listed.
get_author_provider_name(model_id) ==
    LET slash == find(model_id, "/")
        prefix == IF IsSome(slash) THEN SubSeq(model_id, 1, Unwrap(slash) - 1) ELSE model_id
    IN IF to_lowercase(prefix) \in DOMAIN AuthorProviders
       THEN Some(AuthorProviders[to_lowercase(prefix)])
       ELSE None

\* if let Some(cached) = load_cached() { return cached }
OrCache(c) ==
    /\ pc[c] = "init" /\ orr[c].pc = "cache"
    /\ orr' = [orr EXCEPT ![c] =
                 IF IsSome(disk.openrouter) THEN Done(@, "Ok", Unwrap(disk.openrouter))
                 ELSE [@ EXCEPT !.pc = "list"]]
    /\ UNCHANGED <<cell, sem, pc, budget, ret, lit, disk, env, vars_resolve, vars_cache, vars_usage>>

\* The code after the 'retry block, given the model ids the block produced.
OrAfterList(f, ids) ==
    IF ids = {} THEN Done(f, "Ok", <<>>)
    ELSE [f EXCEPT !.pc = "fanout",
                   !.tasks = [m \in {id \in ids : IsSome(get_author_provider_name(id))}
                                |-> [st |-> "wait", resp |-> "none"]]]

OrLoopEnd(f) == IF f.attempt < MAX_RETRIES THEN f ELSE OrAfterList(f, {})

\* One iteration of the 'retry loop over the model list.
OrList(c) ==
    /\ pc[c] = "init" /\ orr[c].pc = "list"
    /\ \E status \in env.http, body \in env.or_bodies :
        LET f == [orr[c] EXCEPT !.hist = Append(@, status)]
        IN orr' = [orr EXCEPT ![c] =
             IF status = NetErr \/ Retryable(status)
             THEN OrLoopEnd([f EXCEPT !.last_error = Some(IF status = NetErr THEN "net" ELSE "http"),
                                      !.waits = WaitsAfter(@, f.attempt),
                                      !.attempt = @ + 1])
             ELSE IF ~is_success(status) THEN OrAfterList(f, {})
             ELSE IF ~body.ok THEN OrAfterList([f EXCEPT !.body = Some(body)], {})
             ELSE OrAfterList([f EXCEPT !.body = Some(body)], DOMAIN body.entries)]
    /\ UNCHANGED <<cell, sem, pc, budget, ret, lit, disk, env, vars_resolve, vars_cache, vars_usage>>

\* A task that sends its request without waiting for a permit.
OrTaskAcquireUnbounded(c) ==
    /\ pc[c] = "init" /\ orr[c].pc = "fanout"
    /\ \E m \in DOMAIN orr[c].tasks :
         /\ orr[c].tasks[m].st = "wait"
         /\ orr' = [orr EXCEPT ![c].tasks[m].st = "inflight", ![c].permits = @ - 1]
    /\ UNCHANGED <<cell, sem, pc, budget, ret, lit, disk, env, vars_resolve, vars_cache, vars_usage>>

\* fetch_author_pricing: let _permit = semaphore.acquire().await
OrTaskAcquire(c) ==
    /\ pc[c] = "init" /\ orr[c].pc = "fanout"
    /\ orr[c].permits > 0
    /\ \E m \in DOMAIN orr[c].tasks :
         /\ orr[c].tasks[m].st = "wait"
         /\ orr' = [orr EXCEPT ![c].tasks[m].st = "inflight", ![c].permits = @ - 1]
    /\ UNCHANGED <<cell, sem, pc, budget, ret, lit, disk, env, vars_resolve, vars_cache, vars_usage>>

\* What the endpoints request of one model yields for the catalog.
AuthorPricing(resp) ==
    IF resp = "ok" THEN Some("full")
    ELSE IF resp = "badcacheprice" THEN Some("no_cache_price")
    ELSE None

\* fetch_author_pricing keeping its permit on the early returns of a failure.
OrTaskRespondKeepsPermit(c) ==
    /\ pc[c] = "init" /\ orr[c].pc = "fanout"
    /\ \E m \in DOMAIN orr[c].tasks, resp \in env.detail :
         /\ orr[c].tasks[m].st = "inflight"
         /\ orr' = [orr EXCEPT ![c].tasks[m] = [st |-> "done", resp |-> resp],
                               ![c].permits = IF resp = "ok" THEN @ + 1 ELSE @]
    /\ UNCHANGED <<cell, sem, pc, budget, ret, lit, disk, env, vars_resolve, vars_cache, vars_usage>>

\* fetch_author_pricing from the request to its return; the permit is dropped.
OrTaskRespond(c) ==
    /\ pc[c] = "init" /\ orr[c].pc = "fanout"
    /\ \E m \in DOMAIN orr[c].tasks, resp \in env.detail :
         /\ orr[c].tasks[m].st = "inflight"
         /\ orr' = [orr EXCEPT ![c].tasks[m] = [st |-> "done", resp |-> resp],
                               ![c].permits = @ + 1]
    /\ UNCHANGED <<cell, sem, pc, budget, ret, lit, disk, env, vars_resolve, vars_cache, vars_usage>>

\* The collection loop once every handle has completed, and the cache write.
OrCollect(c) ==
    /\ pc[c] = "init" /\ orr[c].pc = "fanout"
    /\ \A m \in DOMAIN orr[c].tasks : orr[c].tasks[m].st = "done"
    /\ \E saved \in BOOLEAN :
        LET kept == {m \in DOMAIN orr[c].tasks : IsSome(AuthorPricing(orr[c].tasks[m].resp))}
            result == [m \in kept |-> Unwrap(AuthorPricing(orr[c].tasks[m].resp))]
        IN /\ orr' = [orr EXCEPT ![c] = Done([@ EXCEPT !.saved = (kept # {} /\ saved)], "Ok", result)]
           /\ disk' = IF kept # {} THEN AfterSave("openrouter", result, saved) ELSE disk
    /\ UNCHANGED <<cell, sem, pc, budget, ret, lit, env, vars_resolve, vars_cache, vars_usage>>

(***************************************************************************)
(* PricingService::get_or_init (mod.rs) over the process-wide OnceCell     *)
(***************************************************************************)
MaxCalls == 1

NoReturn == [val |-> "none", engine |-> None, awaited |-> "none"]

CanCall(c) == pc[c] \in {"idle", "returned"} /\ budget[c] > 0

\* get_or_try_init, fast path: the cell is initialized, its value is returned.
CallInitialized(c) ==
    /\ CanCall(c) /\ IsSome(cell)
    /\ pc' = [pc EXCEPT ![c] = "returned"]
    /\ budget' = [budget EXCEPT ![c] = @ - 1]
    /\ ret' = [ret EXCEPT ![c] = [NoReturn EXCEPT !.val = "Ok", !.engine = cell]]
    /\ UNCHANGED <<cell, sem, lit, orr, disk, env, vars_resolve, vars_cache, vars_usage>>

\* get_or_try_init, slow path: the caller queues on the cell's semaphore.
CallUninitialized(c) ==
    /\ CanCall(c) /\ cell = None
    /\ pc' = [pc EXCEPT ![c] = "acquire"]
    /\ budget' = [budget EXCEPT ![c] = @ - 1]
    /\ ret' = [ret EXCEPT ![c] = NoReturn]
    /\ UNCHANGED <<cell, sem, lit, orr, disk, env, vars_resolve, vars_cache, vars_usage>>

\* An acquire that does not wait for the permit.
AcquireWithoutPermit(c) ==
    /\ pc[c] = "acquire" /\ ~sem.closed
    /\ pc' = [pc EXCEPT ![c] = "init"]
    /\ lit' = [lit EXCEPT ![c] = FreshFetch]
    /\ orr' = [orr EXCEPT ![c] = FreshFetch]
    /\ UNCHANGED <<cell, sem, budget, ret, disk, env, vars_resolve, vars_cache, vars_usage>>

\* semaphore.acquire() yields the permit: the caller runs fetch_inner, whose
\* join! starts both fetches.
Acquire(c) ==
    /\ pc[c] = "acquire" /\ ~sem.closed /\ sem.permits > 0
    /\ sem' = [sem EXCEPT !.permits = @ - 1]
    /\ pc' = [pc EXCEPT ![c] = "init"]
    /\ lit' = [lit EXCEPT ![c] = FreshFetch]
    /\ orr' = [orr EXCEPT ![c] = FreshFetch]
    /\ UNCHANGED <<cell, budget, ret, disk, env, vars_resolve, vars_cache, vars_usage>>

\* semaphore.acquire() fails because the semaphore was closed: the cell is set.
AcquireClosed(c) ==
    /\ pc[c] = "acquire" /\ sem.closed
    /\ pc' = [pc EXCEPT ![c] = "returned"]
    /\ ret' = [ret EXCEPT ![c].val = "Ok", ![c].engine = cell]
    /\ UNCHANGED <<cell, sem, budget, lit, orr, disk, env, vars_resolve, vars_cache, vars_usage>>

\* Every caller queued on the semaphore when an initialization ends notes how
\* the initialization it was waiting on ended.
Awaited(c, outcome) ==
    [d \in Callers |->
       IF d = c THEN [ret[c] EXCEPT !.val = outcome]
       ELSE IF pc[d] = "acquire" THEN [ret[d] EXCEPT !.awaited = outcome]
       ELSE ret[d]]

\* A successful initialization that hands the permit back instead of closing
\* the semaphore.
FinishOkStaysOpen(c) ==
    /\ pc[c] = "init" /\ lit[c].pc = "done" /\ orr[c].pc = "done"
    /\ lit[c].result = "Ok"
    /\ LET engine == [by |-> c, call |-> budget[c],
                      litellm |-> lit[c].data, openrouter |-> orr[c].data]
       IN /\ cell' = Some(engine)
          /\ ret' = [Awaited(c, "Ok") EXCEPT ![c].engine = Some(engine)]
    /\ sem' = [sem EXCEPT !.permits = @ + 1]
    /\ pc' = [pc EXCEPT ![c] = "returned"]
    /\ lit' = [lit EXCEPT ![c] = IdleFetch]
    /\ orr' = [orr EXCEPT ![c] = IdleFetch]
    /\ UNCHANGED <<budget, disk, env, vars_resolve, vars_cache, vars_usage>>

\* fetch_inner returns Ok(Self::new(litellm_data, openrouter_data)); the cell
\* stores the Arc and closes its semaphore. The two fetch futures are gone.
FinishOk(c) ==
    /\ pc[c] = "init" /\ lit[c].pc = "done" /\ orr[c].pc = "done"
    /\ lit[c].result = "Ok"
    /\ LET engine == [by |-> c, call |-> budget[c],
                      litellm |-> lit[c].data, openrouter |-> orr[c].data]
       IN /\ cell' = Some(engine)
          /\ ret' = [Awaited(c, "Ok") EXCEPT ![c].engine = Some(engine)]
    /\ sem' = [permits |-> 0, closed |-> TRUE]
    /\ pc' = [pc EXCEPT ![c] = "returned"]
    /\ lit' = [lit EXCEPT ![c] = IdleFetch]
    /\ orr' = [orr EXCEPT ![c] = IdleFetch]
    /\ UNCHANGED <<budget, disk, env, vars_resolve, vars_cache, vars_usage>>

\* A failed initialization that never gives the permit back.
FinishErrKeepsPermit(c) ==
    /\ pc[c] = "init" /\ lit[c].pc = "done" /\ orr[c].pc = "done"
    /\ lit[c].result = "Err"
    /\ ret' = Awaited(c, "Err")
    /\ pc' = [pc EXCEPT ![c] = "returned"]
    /\ lit' = [lit EXCEPT ![c] = IdleFetch]
    /\ orr' = [orr EXCEPT ![c] = IdleFetch]
    /\ UNCHANGED <<cell, sem, budget, disk, env, vars_resolve, vars_cache, vars_usage>>

\* litellm_result.map_err(..)? : the error is returned, the permit is dropped.
FinishErr(c) ==
    /\ pc[c] = "init" /\ lit[c].pc = "done" /\ orr[c].pc = "done"
    /\ lit[c].result = "Err"
    /\ ret' = Awaited(c, "Err")
    /\ sem' = [sem EXCEPT !.permits = @ + 1]
    /\ pc' = [pc EXCEPT ![c] = "returned"]
    /\ lit' = [lit EXCEPT ![c] = IdleFetch]
    /\ orr' = [orr EXCEPT ![c] = IdleFetch]
    /\ UNCHANGED <<cell, budget, disk, env, vars_resolve, vars_cache, vars_usage>>

\* A panic inside litellm::fetch unwinds through join! and get_or_try_init:
\* the other fetch is dropped wherever it stands, the permit is dropped.
FinishPanic(c) ==
    /\ pc[c] = "init" /\ lit[c].pc = "done" /\ lit[c].result = "Panic"
    /\ ret' = Awaited(c, "Panic")
    /\ sem' = [sem EXCEPT !.permits = @ + 1]
    /\ pc' = [pc EXCEPT ![c] = "returned"]
    /\ lit' = [lit EXCEPT ![c] = IdleFetch]
    /\ orr' = [orr EXCEPT ![c] = IdleFetch]
    /\ UNCHANGED <<cell, budget, disk, env, vars_resolve, vars_cache, vars_usage>>

(***************************************************************************)
(* Cache store (cache.rs).  A file is a record: kind "missing", "garbage"  *)
(* (unreadable, or not a {timestamp, data} envelope), "partial" (a cut-off *)
(* write) or "envelope".                                                   *)
(***************************************************************************)
CACHE_TTL_SECS == 3600

File(kind, timestamp, data) == [kind |-> kind, timestamp |-> timestamp, data |-> data]
Missing == File("missing", 0, "")
Envelope(timestamp, data) == File("envelope", timestamp, data)

saturating_sub(a, b) == IF a >= b THEN a - b ELSE 0

\* serde_json::from_str::<CachedData<T>> : timestamp is a u64
ParseEnvelope(file) ==
    IF file.kind = "envelope" /\ file.timestamp >= 0 THEN Some(file) ELSE None

\* load_cache with the expiry test off by one (>= instead of >)
load_cache_expires_at_ttl(file, clock) ==
    LET cached == ParseEnvelope(file)
    IN IF ~IsSome(cached) THEN None
       ELSE IF Unwrap(cached).timestamp > clock
               \/ saturating_sub(clock, Unwrap(cached).timestamp) >= CACHE_TTL_SECS
            THEN None
       ELSE Some(Unwrap(cached).data)

load_cache(file, clock) ==
    LET cached == ParseEnvelope(file)
    IN IF ~IsSome(cached) THEN None
       ELSE IF Unwrap(cached).timestamp > clock
               \/ saturating_sub(clock, Unwrap(cached).timestamp) > CACHE_TTL_SECS
            THEN None
       ELSE Some(Unwrap(cached).data)

\* cleanup: what became of the remove_file call ("none": not reached)
IdleSave == [pc |-> "idle", n |-> 0, data |-> "", content |-> Missing,
             before |-> Missing, cleanup |-> "none", ret |-> "none"]

IdleCache ==
    /\ now = 0
    /\ ticks = 0
    /\ target = Missing
    /\ tmp = Missing
    /\ save = IdleSave
    /\ loaded = None

(***************************************************************************)
(* SpecResolve: engines over bounded catalogs, queried by lookup_with_source *)
(***************************************************************************)
MaxKeys == 2

LiteKeyUniverse == {"gpt-4.1", "GPT-4.1", "gpt-4", "openai/gpt-4", "gpt-4-turbo",
                    "gpt-5", "gpt-5-codex",
                    "xai/grok-code-fast-1-0825", "azure_ai/grok-code-fast-1"}
OrKeyUniverse == {"openai/gpt-4.1", "openai/gpt-4", "x-ai/grok-code-fast-1"}
QueryIds == {"gpt-4", "GPT-4", "gpt-4.1", "gpt-4-1", "gpt-5-codex", "gpt-5-codex-high",
             "grok-code", "mini"}
ForceSources == {None, Some("litellm"), Some("openrouter")}

\* ModelPricing of a catalog entry: prices in units of 10^-9 per token.
PricingFor(source, key) ==
    [input_cost_per_token |-> Some(Len(key) + (IF source = "LiteLLM" THEN 0 ELSE 100)),
     output_cost_per_token |-> Some(2 * Len(key)),
     cache_creation_input_token_cost |-> None,
     cache_read_input_token_cost |-> None]

Catalogs(universe, source) ==
    {[k \in S |-> PricingFor(source, k)] :
        S \in {T \in SUBSET universe : Cardinality(T) <= MaxKeys}}

\* The engine of a run that resolves nothing.
IdleResolve ==
    /\ litellm = <<>> /\ openrouter = <<>>
    /\ litellm_keys = <<>> /\ openrouter_keys = <<>>
    /\ litellm_lower = <<>> /\ openrouter_lower = <<>>
    /\ openrouter_model_part = <<>>
    /\ query = None /\ answer = None
    /\ lookup_cache = <<>> /\ calls = <<>>

Engine == [litellm |-> litellm, openrouter |-> openrouter,
           litellm_keys |-> litellm_keys, openrouter_keys |-> openrouter_keys,
           litellm_lower |-> litellm_lower, openrouter_lower |-> openrouter_lower,
           openrouter_model_part |-> openrouter_model_part]

\* PricingLookup::new over some pair of catalogs; no query made yet.
InitResolve ==
    \E l_data \in Catalogs(LiteKeyUniverse, "LiteLLM"),
       o_data \in Catalogs(OrKeyUniverse, "OpenRouter") :
      \E l_keys \in SortedKeyLists(DOMAIN l_data),
         o_keys \in SortedKeyLists(DOMAIN o_data) :
        LET e == new(l_data, o_data, l_keys, o_keys)
        IN /\ litellm = e.litellm
           /\ openrouter = e.openrouter
           /\ litellm_keys = e.litellm_keys
           /\ openrouter_keys = e.openrouter_keys
           /\ litellm_lower = e.litellm_lower
           /\ openrouter_lower = e.openrouter_lower
           /\ openrouter_model_part = e.openrouter_model_part
           /\ query = None
           /\ answer = None
           /\ lookup_cache = <<>> /\ calls = <<>>
           /\ IdleCache
           /\ IdleService /\ IdleUsage

\* One call of lookup_with_source(model_id, force_source) on the engine.
LookupWithSource ==
    \E model_id \in QueryIds, force_source \in ForceSources :
        /\ query' = Some([model_id |-> model_id, force_source |-> force_source])
        /\ answer' = lookup_with_source(Engine, model_id, force_source)
        /\ UNCHANGED <<litellm, openrouter, litellm_keys, openrouter_keys,
                       litellm_lower, openrouter_lower, openrouter_model_part,
                       lookup_cache, calls>>
        /\ UNCHANGED <<vars_cache, vars_service, vars_usage>>

NextResolve == LookupWithSource

vars == <<vars_resolve, vars_cache, vars_service, vars_usage>>

SpecResolve == InitResolve /\ [][NextResolve]_vars

(***************************************************************************)
(* SpecPrefer: queries over catalogs of one model under many providers     *)
(***************************************************************************)
GrokLiteKeys == {"xai/grok-code-fast-1-0825", "azure_ai/grok-code-fast-1",
                 "groq/grok-code-fast-1", "grok-code-fast-1-0825"}
GrokOrKeys == {"x-ai/grok-code-fast-1", "openrouter/grok-code-fast", "acme/grok-code-fast-1"}

InitPrefer ==
    \E l_data \in Catalogs(GrokLiteKeys, "LiteLLM"),
       o_data \in Catalogs(GrokOrKeys, "OpenRouter") :
      \E l_keys \in SortedKeyLists(DOMAIN l_data),
         o_keys \in SortedKeyLists(DOMAIN o_data) :
        LET e == new(l_data, o_data, l_keys, o_keys)
        IN /\ litellm = e.litellm
           /\ openrouter = e.openrouter
           /\ litellm_keys = e.litellm_keys
           /\ openrouter_keys = e.openrouter_keys
           /\ litellm_lower = e.litellm_lower
           /\ openrouter_lower = e.openrouter_lower
           /\ openrouter_model_part = e.openrouter_model_part
           /\ query = None
           /\ answer = None
           /\ lookup_cache = <<>> /\ calls = <<>>
           /\ IdleCache
           /\ IdleService /\ IdleUsage

SpecPrefer == InitPrefer /\ [][NextResolve]_vars

\* The keys a fuzzy match of id can return, in either catalog.
CandidatesLitellm(id) ==
    {k \in DOMAIN litellm : contains_model_id(to_lowercase(k), id)}
CandidatesOpenrouter(id) ==
    {k \in DOMAIN openrouter : contains_model_id(ModelPart(k), id)}

\* The unforced query reached the fuzzy step with more than one candidate.
FuzzyChoice ==
    /\ IsSome(query) /\ Unwrap(query).force_source = None
    /\ resolve_alias(Unwrap(query).model_id) = None
    /\ LET id == to_lowercase(Unwrap(query).model_id)
       IN /\ ExactStage(Engine, id) = None
          /\ is_fuzzy_eligible(id)
          /\ Cardinality(CandidatesLitellm(id)) + Cardinality(CandidatesOpenrouter(id)) > 1

\* C15: among several fuzzy candidates the result is a candidate of the best
\* provider class present: original provider before everything else, then
\* non-reseller before reseller; when LiteLLM has a candidate of that class
\* the LiteLLM one wins. With both grok keys in LiteLLM, "grok-code" resolves
\* to the "xai/" key.
C15_ProviderPreference ==
    FuzzyChoice =>
      LET id == to_lowercase(Unwrap(query).model_id)
          cl == CandidatesLitellm(id)
          co == CandidatesOpenrouter(id)
          best(k) == IF \E c \in cl \cup co : is_original_provider(c)
                     THEN is_original_provider(k)
                     ELSE IF \E c \in cl \cup co : ~is_reseller_provider(c)
                     THEN ~is_reseller_provider(k)
                     ELSE TRUE
      IN /\ IsSome(answer)
         /\ LET r == Unwrap(answer)
            IN /\ \/ r.source = "LiteLLM" /\ r.matched_key \in cl
                  \/ r.source = "OpenRouter" /\ r.matched_key \in co
               /\ best(r.matched_key)
               /\ (\E c \in cl : best(c)) => r.source = "LiteLLM"
               /\ (id = "grok-code"
                     /\ {"xai/grok-code-fast-1-0825", "azure_ai/grok-code-fast-1"} \subseteq cl)
                    => r.matched_key = "xai/grok-code-fast-1-0825"

\* resolve("grok-code") over both grok keys, the reseller key listed first,
\* with a further original-provider candidate in OpenRouter.
C15_GrokPrefersXai ==
    /\ FuzzyChoice
    /\ Unwrap(query).model_id = "grok-code"
    /\ litellm_keys = <<"azure_ai/grok-code-fast-1", "xai/grok-code-fast-1-0825">>
    /\ "x-ai/grok-code-fast-1" \in DOMAIN openrouter
    /\ Unwrap(answer).matched_key = "xai/grok-code-fast-1-0825"

\* C14: the answer to a query is determined by the catalog contents and the
\* id alone: every engine built from the same two catalogs, whatever order
\* their maps were iterated in, gives the answer this engine gave.
C14_AnswerIgnoresIterationOrder ==
    IsSome(query) =>
        \A l_keys \in SortedKeyLists(DOMAIN litellm),
           o_keys \in SortedKeyLists(DOMAIN openrouter) :
            lookup_with_source(new(litellm, openrouter, l_keys, o_keys),
                               Unwrap(query).model_id, Unwrap(query).force_source) = answer

(***************************************************************************)
(* SpecMemo: concurrent PricingLookup::lookup calls on one engine          *)
(***************************************************************************)
NumThreads == 2
MaxLookups == 1
Threads == 1..NumThreads

MemoIds == {"gpt-4", "GPT-4", "mini"}

IdleCall == [pc |-> "idle", left |-> MaxLookups, id |-> "", hit |-> FALSE, result |-> None]

\* An engine over one of a few catalogs, its memo empty, nobody calling.
InitMemo ==
    \E l_data \in Catalogs({"gpt-4"}, "LiteLLM"),
       o_data \in Catalogs({"openai/gpt-4"}, "OpenRouter") :
      \E l_keys \in SortedKeyLists(DOMAIN l_data),
         o_keys \in SortedKeyLists(DOMAIN o_data) :
        LET e == new(l_data, o_data, l_keys, o_keys)
        IN /\ litellm = e.litellm
           /\ openrouter = e.openrouter
           /\ litellm_keys = e.litellm_keys
           /\ openrouter_keys = e.openrouter_keys
           /\ litellm_lower = e.litellm_lower
           /\ openrouter_lower = e.openrouter_lower
           /\ openrouter_model_part = e.openrouter_model_part
           /\ query = None
           /\ answer = None
           /\ lookup_cache = <<>>
           /\ calls = [t \in Threads |-> IdleCall]
           /\ IdleCache
           /\ IdleService /\ IdleUsage

EngineUnchanged ==
    UNCHANGED <<litellm, openrouter, litellm_keys, openrouter_keys,
                litellm_lower, openrouter_lower, openrouter_model_part, query, answer>>

\* lookup(model_id), the read under the read lock: a memo entry, whether it
\* holds a result or None, is returned; otherwise the call goes on to resolve.
LookupRead(t) ==
    /\ calls[t].pc \in {"idle", "returned"} /\ calls[t].left > 0
    /\ \E model_id \in MemoIds :
         calls' = [calls EXCEPT ![t] =
            IF model_id \in DOMAIN lookup_cache
            THEN [pc |-> "returned", left |-> @.left - 1, id |-> model_id,
                  hit |-> TRUE, result |-> lookup_cache[model_id]]
            ELSE [pc |-> "miss", left |-> @.left - 1, id |-> model_id,
                  hit |-> FALSE, result |-> None]]
    /\ UNCHANGED lookup_cache
    /\ EngineUnchanged /\ UNCHANGED <<vars_cache, vars_service, vars_usage>>

\* cache.insert(key, value)
Insert(cache, key, value) ==
    [k \in DOMAIN cache \cup {key} |-> IF k = key THEN value ELSE cache[k]]

\* A resolve that files its result under the lower-cased id.
LookupResolveLowerKey(t) ==
    /\ calls[t].pc = "miss"
    /\ LET result == lookup_with_source(Engine, calls[t].id, None)
       IN /\ lookup_cache' = Insert(lookup_cache, to_lowercase(calls[t].id), result)
          /\ calls' = [calls EXCEPT ![t].pc = "returned", ![t].result = result]
    /\ EngineUnchanged /\ UNCHANGED <<vars_cache, vars_service, vars_usage>>

\* lookup(model_id) after a miss: lookup_with_source(model_id, None), then the
\* insert under the write lock, then the return.
LookupResolve(t) ==
    /\ calls[t].pc = "miss"
    /\ LET result == lookup_with_source(Engine, calls[t].id, None)
       IN /\ lookup_cache' = Insert(lookup_cache, calls[t].id, result)
          /\ calls' = [calls EXCEPT ![t].pc = "returned", ![t].result = result]
    /\ EngineUnchanged /\ UNCHANGED <<vars_cache, vars_service, vars_usage>>

NextMemo ==
    \/ \E t \in Threads : LookupRead(t)
    \/ \E t \in Threads : LookupResolve(t)

SpecMemo == InitMemo /\ [][NextMemo]_vars

\* C13: every lookup(id) returns lookup_with_source(id, None), from a cold or
\* a warm memo; every returned id has a memo entry under the id as given,
\* hits and misses alike; and every memo entry holds that same value, so an
\* entry never changes to a different one.
C13_MemoIsTransparent ==
    /\ \A id \in DOMAIN lookup_cache :
         lookup_cache[id] = lookup_with_source(Engine, id, None)
    /\ \A t \in DOMAIN calls :
         calls[t].pc = "returned"
           => /\ calls[t].result = lookup_with_source(Engine, calls[t].id, None)
              /\ calls[t].id \in DOMAIN lookup_cache

\* Two threads missed on the same mixed-case id at once, both resolved it, and
\* the memo holds the result under that id.
C13_ColdRaceThenEntry ==
    \E t, u \in DOMAIN calls :
        /\ t # u
        /\ calls[t].pc = "returned" /\ calls[u].pc = "returned"
        /\ calls[t].id = "GPT-4" /\ calls[u].id = "GPT-4"
        /\ ~calls[t].hit /\ ~calls[u].hit
        /\ "GPT-4" \in DOMAIN lookup_cache

\* Every key of both catalogs, lowercased.
AllLowerKeys == DOMAIN litellm_lower \cup DOMAIN openrouter_lower

Asked(model_id, force_source) ==
    query = Some([model_id |-> model_id, force_source |-> force_source])

(***************************************************************************)
(* SpecCompound: ids carrying both a fallback suffix and a tier suffix     *)
(***************************************************************************)
CompoundLiteKeys == {"gpt-5", "gpt-5-codex", "gpt-5-high", "openai/gpt-5-codex-max"}
CompoundOrKeys == {"openai/gpt-5"}
CompoundIds == {"gpt-5-codex-high", "gpt-5-codex-max-xhigh", "gpt-5-high-codex",
                "gpt-5:low-codex-max", "GPT-5-Codex-High", "gpt-5-codex"}

InitCompound ==
    \E l_data \in Catalogs(CompoundLiteKeys, "LiteLLM"),
       o_data \in Catalogs(CompoundOrKeys, "OpenRouter") :
      \E l_keys \in SortedKeyLists(DOMAIN l_data),
         o_keys \in SortedKeyLists(DOMAIN o_data) :
        LET e == new(l_data, o_data, l_keys, o_keys)
        IN /\ litellm = e.litellm
           /\ openrouter = e.openrouter
           /\ litellm_keys = e.litellm_keys
           /\ openrouter_keys = e.openrouter_keys
           /\ litellm_lower = e.litellm_lower
           /\ openrouter_lower = e.openrouter_lower
           /\ openrouter_model_part = e.openrouter_model_part
           /\ query = None
           /\ answer = None
           /\ lookup_cache = <<>> /\ calls = <<>>
           /\ IdleCache
           /\ IdleService /\ IdleUsage

\* One call of lookup_with_source on a suffixed model id.
LookupCompound ==
    \E model_id \in CompoundIds, force_source \in ForceSources :
        /\ query' = Some([model_id |-> model_id, force_source |-> force_source])
        /\ answer' = lookup_with_source(Engine, model_id, force_source)
        /\ UNCHANGED <<litellm, openrouter, litellm_keys, openrouter_keys,
                       litellm_lower, openrouter_lower, openrouter_model_part,
                       lookup_cache, calls>>
        /\ UNCHANGED <<vars_cache, vars_service, vars_usage>>

NextCompound == LookupCompound

SpecCompound == InitCompound /\ [][NextCompound]_vars

\* The ways of reading id as base + first suffix + second suffix, one suffix
\* of each table: <<base, first, second>>.
Compounds(id) ==
    LET pair(a, b) == IF ends_with(id, a \o b) /\ Len(id) > Len(a \o b)
                      THEN {<<SubSeq(id, 1, Len(id) - Len(a \o b)), a, b>>} ELSE {}
    IN UNION {pair(FALLBACK_SUFFIXES[i], TIER_SUFFIXES[j]) \cup
              pair(TIER_SUFFIXES[j], FALLBACK_SUFFIXES[i]) :
                  i \in 1..Len(FALLBACK_SUFFIXES), j \in 1..Len(TIER_SUFFIXES)}

\* Only the base of the compound id resolves: not the id, not the id less
\* either one of its suffixes.
OnlyBaseResolves(force_source, id, c) ==
    /\ do_lookup(Engine, force_source, id) = None
    /\ do_lookup(Engine, force_source, c[1] \o c[2]) = None
    /\ do_lookup(Engine, force_source, c[1] \o c[3]) = None
    /\ do_lookup(Engine, force_source, c[1]) # None

\* C16: for an id base+fallback+tier or base+tier+fallback of which only the
\* base resolves, lookup_with_source returns what the base resolves to; over
\* the catalog {"gpt-5"}, "gpt-5-codex-high" and "gpt-5-codex-max-xhigh"
\* resolve to "gpt-5".
C16_CompoundSuffixResolvesBase ==
    (IsSome(query) /\ resolve_alias(Unwrap(query).model_id) = None) =>
      LET q == Unwrap(query)
          id == to_lowercase(q.model_id)
      IN /\ \A c \in Compounds(id) :
               OnlyBaseResolves(q.force_source, id, c)
                 => answer = do_lookup(Engine, q.force_source, c[1])
         /\ (q.force_source = None /\ DOMAIN litellm = {"gpt-5"} /\ DOMAIN openrouter = {}
               /\ q.model_id \in {"gpt-5-codex-high", "gpt-5-codex-max-xhigh"})
              => (IsSome(answer) /\ Unwrap(answer).matched_key = "gpt-5")

\* resolve("gpt-5-high-codex") over {"gpt-5"}: the fallback suffix goes first,
\* then the tier suffix.
C16_FallbackThenTier ==
    /\ Asked("gpt-5-high-codex", None)
    /\ DOMAIN litellm = {"gpt-5"} /\ DOMAIN openrouter = {}
    /\ OnlyBaseResolves(None, "gpt-5-high-codex", <<"gpt-5", "-high", "-codex">>)
    /\ IsSome(answer) /\ Unwrap(answer).matched_key = "gpt-5"

\* C1: with a key "gpt-4.1" in the catalogs and no key equal to "gpt-4", to a
\* provider-prefixed "gpt-4" or to a provider/"gpt-4" model part, resolve("gpt-4")
\* does not return the "gpt-4.1" entry.
C1_Gpt4NotInsideGpt41 ==
    (/\ Asked("gpt-4", None)
     /\ "gpt-4.1" \in AllLowerKeys
     /\ "gpt-4" \notin AllLowerKeys
     /\ "gpt-4" \notin DOMAIN openrouter_model_part
     /\ \A i \in 1..Len(PROVIDER_PREFIXES) :
            (PROVIDER_PREFIXES[i] \o "gpt-4") \notin AllLowerKeys)
    => (IsSome(answer) => to_lowercase(Unwrap(answer).matched_key) # "gpt-4.1")

(***************************************************************************)
(* SpecCache: one writer running save_cache step by step, readers calling  *)
(* load_cache, and the clock advancing.                                    *)
(***************************************************************************)
MaxTicks == 3
MaxSaves == 1

StartTime == 3 * CACHE_TTL_SECS
TickSteps == {1, CACHE_TTL_SECS - 1}
InitialFiles == {Missing, File("garbage", 0, "")}
                \cup {Envelope(t, "old") : t \in {StartTime, StartTime + 2, -1}}

InitCache ==
    /\ now = StartTime
    /\ ticks = 0
    /\ target \in InitialFiles
    /\ tmp = Missing
    /\ save = IdleSave
    /\ loaded = None
    /\ IdleResolve
    /\ IdleService /\ IdleUsage

\* SystemTime::now() moves on between any two steps.
Tick ==
    /\ ticks < MaxTicks
    /\ \E d \in TickSteps : now' = now + d
    /\ ticks' = ticks + 1
    /\ UNCHANGED <<target, tmp, save, loaded, vars_resolve, vars_service, vars_usage>>

\* load_cache(filename): fs::read_to_string sees the file as it is now.
Load ==
    /\ loaded' = Some([file |-> target, clock |-> now, ret |-> load_cache(target, now)])
    /\ UNCHANGED <<now, ticks, target, tmp, save, vars_resolve, vars_service, vars_usage>>

SaveReturn(result) == [save EXCEPT !.pc = "returned", !.ret = result]

\* save_cache(filename, data) is entered; tmp_path is a name not in use.
SaveCall ==
    /\ save.pc \in {"idle", "returned"}
    /\ save.n < MaxSaves
    /\ save' = [pc |-> "mkdir", n |-> save.n + 1, data |-> "new", content |-> Missing,
                before |-> target, cleanup |-> "none", ret |-> "none"]
    /\ tmp' = Missing
    /\ UNCHANGED <<now, ticks, target, loaded, vars_resolve, vars_service, vars_usage>>

\* fs::create_dir_all(&dir)?
SaveMkdir ==
    /\ save.pc = "mkdir"
    /\ \/ save' = [save EXCEPT !.pc = "serialize"]
       \/ save' = SaveReturn("Err")
    /\ UNCHANGED <<now, ticks, target, tmp, loaded, vars_resolve, vars_service, vars_usage>>

\* CachedData { timestamp: now, data } and serde_json::to_string(&cached)?
SaveSerialize ==
    /\ save.pc = "serialize"
    /\ \/ save' = [save EXCEPT !.pc = "create", !.content = Envelope(now, save.data)]
       \/ save' = SaveReturn("Err")
    /\ UNCHANGED <<now, ticks, target, tmp, loaded, vars_resolve, vars_service, vars_usage>>

\* fs::File::create(&tmp_path)?
SaveCreate ==
    /\ save.pc = "create"
    /\ \/ /\ tmp' = File("partial", 0, "")
          /\ save' = [save EXCEPT !.pc = "write"]
       \/ /\ tmp' = tmp
          /\ save' = [save EXCEPT !.pc = "cleanup"]
    /\ UNCHANGED <<now, ticks, target, loaded, vars_resolve, vars_service, vars_usage>>

\* save_cache writing straight into the cache file instead of the temp file
SaveWriteInPlace ==
    /\ save.pc = "write"
    /\ \/ /\ target' = save.content
          /\ save' = [save EXCEPT !.pc = "sync"]
       \/ /\ target' = File("partial", 0, "")
          /\ save' = [save EXCEPT !.pc = "cleanup"]
    /\ UNCHANGED <<now, ticks, tmp, loaded, vars_resolve, vars_service, vars_usage>>

\* file.write_all(content.as_bytes())? : a failed write leaves a cut-off file
SaveWrite ==
    /\ save.pc = "write"
    /\ \/ /\ tmp' = save.content
          /\ save' = [save EXCEPT !.pc = "sync"]
       \/ /\ tmp' = File("partial", 0, "")
          /\ save' = [save EXCEPT !.pc = "cleanup"]
    /\ UNCHANGED <<now, ticks, target, loaded, vars_resolve, vars_service, vars_usage>>

\* file.sync_all()?
SaveSync ==
    /\ save.pc = "sync"
    /\ \/ save' = [save EXCEPT !.pc = "rename"]
       \/ save' = [save EXCEPT !.pc = "cleanup"]
    /\ UNCHANGED <<now, ticks, target, tmp, loaded, vars_resolve, vars_service, vars_usage>>

\* fs::rename(&tmp_path, &final_path) replaces the target in one step or fails
SaveRename ==
    /\ save.pc = "rename"
    /\ \/ /\ target' = tmp
          /\ tmp' = Missing
          /\ save' = SaveReturn("Ok")
       \/ /\ UNCHANGED <<target, tmp>>
          /\ save' = [save EXCEPT !.pc = "cleanup"]
    /\ UNCHANGED <<now, ticks, loaded, vars_resolve, vars_service, vars_usage>>

\* if write_result.is_err() { let _ = fs::remove_file(&tmp_path); } write_result
\* The removal's own result is discarded.
SaveCleanup ==
    /\ save.pc = "cleanup"
    /\ \/ /\ tmp' = Missing
          /\ save' = [SaveReturn("Err") EXCEPT !.cleanup = "removed"]
       \/ /\ tmp' = tmp
          /\ save' = [SaveReturn("Err") EXCEPT !.cleanup = "failed"]
    /\ UNCHANGED <<now, ticks, target, loaded, vars_resolve, vars_service, vars_usage>>

NextCache ==
    \/ Tick \/ Load \/ SaveCall \/ SaveMkdir \/ SaveSerialize \/ SaveCreate
    \/ SaveWrite \/ SaveSync \/ SaveRename \/ SaveCleanup

SpecCache == InitCache /\ [][NextCache]_vars

\* The last load: the file it read, the clock it read, what it returned.
LastLoad == Unwrap(loaded)
LoadAge == LastLoad.clock - LastLoad.file.timestamp

\* C7: load_cache returns the stored data iff the file exists, parses as a
\* {timestamp, data} envelope, timestamp <= now and now - timestamp <= 3600 s, and
\* None in every other case; ages 3599 s and 3600 s hit, 3601 s and a future
\* timestamp miss.
C7_LoadHitIffFresh ==
    IsSome(loaded) =>
        LET f == LastLoad.file
            fresh == /\ f.kind = "envelope"
                     /\ f.timestamp >= 0
                     /\ f.timestamp <= LastLoad.clock
                     /\ LastLoad.clock - f.timestamp <= 3600
        IN /\ fresh => LastLoad.ret = Some(f.data)
           /\ ~fresh => LastLoad.ret = None
           /\ (f.kind = "envelope" /\ f.timestamp >= 0 /\ LoadAge \in {3599, 3600})
                  => LastLoad.ret = Some(f.data)
           /\ LoadAge = 3601 => LastLoad.ret = None
           /\ f.timestamp > LastLoad.clock => LastLoad.ret = None

\* C7 witness: an entry aged exactly 3600 s was read and served.
C7_HitAtExactTtl ==
    /\ IsSome(loaded)
    /\ LastLoad.file.kind = "envelope"
    /\ LoadAge = 3600
    /\ LastLoad.ret = Some("old")

\* The cache file is the old entry or the complete new envelope of the save.
TargetIntact ==
    /\ target.kind # "partial"
    /\ save.pc # "idle" =>
          \/ target = save.before
          \/ save.content.kind = "envelope" /\ target = save.content
    /\ IsSome(loaded) => LastLoad.file.kind # "partial"

\* C8 as claimed: a failed save leaves the cache file as it was before the call,
\* the temp file deleted and the error returned; a reader sees the old or the new
\* envelope, never a partial file.
C8_FailedSaveDeletesTemp ==
    /\ TargetIntact
    /\ (save.pc = "returned" /\ save.ret = "Err")
          => (target = save.before /\ tmp = Missing)

\* C8 amended: as claimed, except that the temp file is gone only when the
\* removal itself did not fail (the removal is best-effort, its error discarded);
\* a save that returns Ok has installed its envelope and left no temp file.
C8_FailedSaveKeepsTarget ==
    /\ TargetIntact
    /\ (save.pc = "returned" /\ save.ret = "Err")
          => (target = save.before /\ (save.cleanup # "failed" => tmp = Missing))
    /\ (save.pc = "returned" /\ save.ret = "Ok")
          => (target = save.content /\ tmp = Missing)
    /\ save.pc = "returned" => save.ret \in {"Ok", "Err"}

\* C8 witness: a save over an existing entry failed after its temp file was
\* written, the temp file was removed and the entry is untouched.
C8_FailedSaveOverEntry ==
    /\ save.pc = "returned" /\ save.ret = "Err"
    /\ save.cleanup = "removed"
    /\ save.content.kind = "envelope"
    /\ save.before.kind = "envelope"
    /\ target = save.before
    /\ tmp = Missing


(***************************************************************************)
(* SpecFetch: one run of fetch_inner against every kind of upstream answer *)
(***************************************************************************)
HttpOutcomes == {NetErr, 200, 404, TOO_MANY_REQUESTS, 500}

LitBodies ==
    { Malformed,
      Body(TRUE, <<>>),
      Body(TRUE, [m \in {"gpt-a"} |-> "valid"]),
      Body(TRUE, [m \in {"gpt-a", "gpt-b"} |-> IF m = "gpt-a" THEN "valid" ELSE "non_numeric"]),
      Body(TRUE, [m \in {"gpt-a", "gpt-b"} |-> IF m = "gpt-a" THEN "valid" ELSE "negative"]) }

OrBodies ==
    { Malformed,
      Body(TRUE, <<>>),
      Body(TRUE, [m \in {"openai/gpt-a", "acme/gpt-x"} |-> "listed"]),
      Body(TRUE, [m \in {"openai/gpt-a", "X-AI/grok-b"} |-> "listed"]) }

DetailOutcomes == {"neterr", "status", "badjson", "noauthor", "badprice", "badcacheprice", "ok"}

FullEnv == [http |-> HttpOutcomes, lit_bodies |-> LitBodies,
            or_bodies |-> OrBodies, detail |-> DetailOutcomes]

CachedLitellm == [m \in {"gpt-c"} |-> "valid"]
CachedOpenrouter == [m \in {"openai/gpt-c"} |-> "full"]

Disks ==
    { [litellm |-> None, openrouter |-> None],
      [litellm |-> Some(CachedLitellm), openrouter |-> None],
      [litellm |-> None, openrouter |-> Some(CachedOpenrouter)] }

\* Caller 1 has the permit and is about to poll join!; nobody else calls.
InitFetch ==
    /\ IdleResolve /\ IdleCache /\ IdleUsage
    /\ cell = None
    /\ sem = [permits |-> 0, closed |-> FALSE]
    /\ pc = [c \in Callers |-> IF c = 1 THEN "init" ELSE "idle"]
    /\ budget = [c \in Callers |-> 0]
    /\ ret = [c \in Callers |-> NoReturn]
    /\ lit = [c \in Callers |-> IF c = 1 THEN FreshFetch ELSE IdleFetch]
    /\ orr = [c \in Callers |-> IF c = 1 THEN FreshFetch ELSE IdleFetch]
    /\ disk \in Disks
    /\ env = FullEnv

NextFetch ==
    \/ \E c \in Callers : LitCache(c)
    \/ \E c \in Callers : LitRequest(c)
    \/ \E c \in Callers : OrCache(c)
    \/ \E c \in Callers : OrList(c)
    \/ \E c \in Callers : OrTaskAcquire(c)
    \/ \E c \in Callers : OrTaskRespond(c)
    \/ \E c \in Callers : OrCollect(c)
    \/ \E c \in Callers : FinishOk(c)
    \/ \E c \in Callers : FinishErr(c)
    \/ \E c \in Callers : FinishPanic(c)

SpecFetch == InitFetch /\ [][NextFetch]_vars

\* A request outcome after which the loop goes on to its next iteration.
RetryableOutcome(o) == o = NetErr \/ o = 429 \/ o \in 500..599

Last(seq) == seq[Len(seq)]

\* C2: when all 3 attempts of litellm::fetch end in a retryable condition
\* (network errors, 5xx/429 responses, or any mix), fetch returns Err.
C2_ExhaustedRetriesReturnErr ==
    \A c \in Callers :
        (/\ lit[c].pc = "done"
         /\ Len(lit[c].hist) = 3
         /\ \A i \in 1..3 : RetryableOutcome(lit[c].hist[i]))
        => lit[c].result = "Err"

\* The retry discipline of one fetch f over its list of request outcomes.
RetryDiscipline(f, looping) ==
    /\ Len(f.hist) <= 3
    /\ \A i \in 1..(Len(f.hist) - 1) : RetryableOutcome(f.hist[i])
    /\ (f.hist # <<>> /\ Last(f.hist) \in 200..299) => f.pc # looping
    /\ (f.hist # <<>> /\ ~RetryableOutcome(Last(f.hist)) /\ Last(f.hist) \notin 200..299)
          => (f.pc = "done" /\ f.result = "Err")

\* C9: on a cache miss a fetcher issues at most 3 requests; request k+1 only
\* follows a network error, a 5xx or a 429; any other non-success status ends
\* the fetch in failure at once; a successful response ends the loop.
C9_RetryOnlyAfterRetryable ==
    \A c \in Callers :
        /\ RetryDiscipline(lit[c], "request")
        /\ RetryDiscipline(orr[c], "list")

\* C10: a well-formed response with an entry whose price field is invalid
\* loses only that entry: the fetch succeeds with every valid entry; only a
\* malformed top level fails the fetch.
C10_InvalidEntryDroppedAlone ==
    \A c \in Callers :
        /\ (lit[c].pc = "done" /\ IsSome(lit[c].body) /\ Unwrap(lit[c].body).ok)
            => /\ lit[c].result = "Ok"
               /\ DOMAIN lit[c].data =
                    {m \in DOMAIN Unwrap(lit[c].body).entries :
                        Unwrap(lit[c].body).entries[m] = "valid"}
        /\ (orr[c].pc = "done" /\ DOMAIN orr[c].tasks # {})
            => DOMAIN orr[c].data =
                 {m \in DOMAIN orr[c].tasks :
                    orr[c].tasks[m].resp \in {"ok", "badcacheprice"}}

\* The fetch f ended without a catalog: retries exhausted, a non-retryable
\* status, or a response whose top level does not parse.
FetchFailed(f) ==
    /\ f.pc = "done" /\ f.hist # <<>>
    /\ \/ Last(f.hist) \notin 200..299
       \/ IsSome(f.body) /\ ~Unwrap(f.body).ok

\* C6: when either source's fetch fails, the call of get_or_init that ran it
\* returns an error.
C6_FetchFailureFailsInit ==
    [][\A c \in Callers :
         (/\ pc[c] = "init" /\ pc'[c] = "returned"
          /\ (FetchFailed(lit[c]) \/ FetchFailed(orr[c])))
         => ret'[c].val = "Err"]_vars

\* C11: a fetcher persists only a non-empty successful network result: no
\* cache entry ever holds an empty catalog, and a fetch that received a
\* parsable catalog succeeds whether or not the cache write succeeded.
C11_OnlyNonEmptyPersisted ==
    /\ IsSome(disk.litellm) => DOMAIN Unwrap(disk.litellm) # {}
    /\ IsSome(disk.openrouter) => DOMAIN Unwrap(disk.openrouter) # {}
    /\ \A c \in Callers :
         /\ lit[c].saved => DOMAIN lit[c].data # {}
         /\ orr[c].saved => DOMAIN orr[c].data # {}
         /\ (lit[c].pc = "done" /\ IsSome(lit[c].body)
               /\ IsSome(ParseDataset(Unwrap(lit[c].body))))
              => lit[c].result = "Ok"

(***************************************************************************)
(* SpecFanout: the author-pricing fan-out over more models than permits    *)
(***************************************************************************)
NumModels == 11

ModelLetters == <<"a", "b", "c", "d", "e", "f", "g", "h", "i", "j", "k", "l", "m", "n">>

\* The model list the list request returned: NumModels ids of a known author.
ListedModels == {"openai/gpt-" \o ModelLetters[i] : i \in 1..NumModels}

\* Caller 1 runs fetch_inner: LiteLLM was a cache hit, the OpenRouter list
\* request has just returned ListedModels and the tasks are spawned.
InitFanout ==
    /\ IdleResolve /\ IdleCache /\ IdleUsage
    /\ cell = None
    /\ sem = [permits |-> 0, closed |-> FALSE]
    /\ pc = [c \in Callers |-> IF c = 1 THEN "init" ELSE "idle"]
    /\ budget = [c \in Callers |-> 0]
    /\ ret = [c \in Callers |-> NoReturn]
    /\ lit = [c \in Callers |-> IF c = 1 THEN Done(FreshFetch, "Ok", CachedLitellm) ELSE IdleFetch]
    /\ orr = [c \in Callers |->
                IF c = 1
                THEN OrAfterList([FreshFetch EXCEPT !.pc = "list", !.hist = <<200>>], ListedModels)
                ELSE IdleFetch]
    /\ disk = [litellm |-> Some(CachedLitellm), openrouter |-> None]
    /\ env = [FullEnv EXCEPT !.detail = {"ok"}]

NextFanout ==
    \/ \E c \in Callers : OrTaskAcquire(c)
    \/ \E c \in Callers : OrTaskRespond(c)
    \/ \E c \in Callers : OrCollect(c)
    \/ \E c \in Callers : FinishOk(c)

SpecFanout == InitFanout /\ [][NextFanout]_vars

\* The detail requests of caller c's fan-out that are sent and not completed.
InFlightRequests(c) == {m \in DOMAIN orr[c].tasks : orr[c].tasks[m].st = "inflight"}

\* C12: during the fan-out at most 10 detail requests are in flight, and
\* every request in flight holds one of the 10 permits.
C12_AtMostTenInFlight ==
    \A c \in Callers :
        /\ Cardinality(InFlightRequests(c)) <= 10
        /\ orr[c].permits >= 0
        /\ orr[c].permits + Cardinality(InFlightRequests(c)) = 10

\* Ten requests are in flight and a further task is kept waiting.
C12_TenInFlightOneWaiting ==
    \E c \in Callers :
        /\ Cardinality(InFlightRequests(c)) = 10
        /\ orr[c].permits = 0
        /\ \E m \in DOMAIN orr[c].tasks : orr[c].tasks[m].st = "wait"

(***************************************************************************)
(* Spec: callers of get_or_init racing on the cell                         *)
(***************************************************************************)
\* The upstream answers that give an initialization each of its three ends:
\* a value, an error (a body that does not parse) and a panic (three 500s).
CallEnv == [http |-> {200, 500},
            lit_bodies |-> {Malformed, Body(TRUE, [m \in {"gpt-a"} |-> "valid"])},
            or_bodies |-> {Body(TRUE, [m \in {"openai/gpt-a"} |-> "listed"])},
            detail |-> {"ok"}]

Init ==
    /\ IdleResolve /\ IdleCache /\ IdleUsage
    /\ cell = None
    /\ sem = [permits |-> 1, closed |-> FALSE]
    /\ pc = [c \in Callers |-> "idle"]
    /\ budget = [c \in Callers |-> MaxCalls]
    /\ ret = [c \in Callers |-> NoReturn]
    /\ lit = [c \in Callers |-> IdleFetch]
    /\ orr = [c \in Callers |-> IdleFetch]
    /\ disk = [litellm |-> None, openrouter |-> None]
    /\ env = CallEnv

Next ==
    \/ \E c \in Callers : CallInitialized(c)
    \/ \E c \in Callers : CallUninitialized(c)
    \/ \E c \in Callers : Acquire(c)
    \/ \E c \in Callers : AcquireClosed(c)
    \/ NextFetch

Spec == Init /\ [][Next]_vars

\* Caller c's call of get_or_init returns in this step.
Returns(c) ==
    /\ pc'[c] = "returned"
    /\ pc[c] # "returned" \/ budget'[c] # budget[c]

\* C3: at most one initialization ever succeeds: once the cell holds an engine
\* it keeps that engine, no call starts a catalog fetch any more, and every
\* call that returns from then on returns that engine.
C3_OneSuccessfulInit ==
    [][IsSome(cell) =>
         /\ cell' = cell
         /\ \A c \in Callers :
              /\ pc'[c] # "init"
              /\ lit'[c] = IdleFetch /\ orr'[c] = IdleFetch
              /\ Returns(c) => (ret'[c].val = "Ok" /\ ret'[c].engine = cell)]_vars

\* A caller other than the initializer made both of its calls and holds the
\* engine of the cell.
C3_SecondCallSharesEngine ==
    /\ IsSome(cell)
    /\ \E d \in Callers :
         /\ Unwrap(cell).by # d
         /\ budget[d] = 0 /\ pc[d] = "returned"
         /\ ret[d].val = "Ok" /\ ret[d].engine = cell
         /\ pc[Unwrap(cell).by] = "returned" /\ ret[Unwrap(cell).by].engine = cell

\* C4: a failed initialization is not stored: when get_or_init returns an
\* error the cell is still empty and its permit is free again, the next call
\* takes the initializing path, and an initialization always starts both
\* fetches from scratch.
C4_FailureNotStored ==
    [][\A c \in Callers :
         /\ (Returns(c) /\ ret'[c].val = "Err")
              => (cell' = None /\ ~sem'.closed /\ sem'.permits = 1)
         /\ (cell = None /\ CanCall(c) /\ budget'[c] < budget[c])
              => pc'[c] = "acquire"
         /\ (pc[c] # "init" /\ pc'[c] = "init")
              => \A f \in {lit'[c], orr'[c]} :
                    /\ f.pc = "cache" /\ f.attempt = 0 /\ f.hist = <<>>
                    /\ f.last_error = None /\ f.result = "none"]_vars

\* One caller got an error and another one, calling later, initialized the
\* cell.
C4_RetrySucceeded ==
    \E c, d \in Callers :
        /\ c # d
        /\ pc[c] = "returned" /\ ret[c].val = "Err"
        /\ pc[d] = "returned" /\ ret[d].val = "Ok"
        /\ IsSome(cell) /\ Unwrap(cell).by = d /\ ret[d].engine = cell

InFlight == {c \in Callers : pc[c] = "init"}

\* C5: concurrent callers before the first success all await the same
\* in-flight initialization: at most one is in flight, a caller arriving
\* meanwhile starts no fetch of its own, and every caller that waited on an
\* initialization receives the outcome of that initialization.
C5_WaitersReceiveOutcome ==
    /\ Cardinality(InFlight) <= 1
    /\ \A d \in Callers :
         /\ pc[d] = "init" => ret[d].awaited = "none"
         /\ (pc[d] = "returned" /\ ret[d].awaited # "none") => ret[d].val = ret[d].awaited

\* C5 (amended): at most one initialization is in flight and while it runs
\* nobody else can start one; a caller that waited on an initialization that
\* succeeded never fetches and returns the engine it built; only a caller
\* whose awaited initialization failed goes on to run one of its own.
C5_WaitersShareSuccess ==
    /\ Cardinality(InFlight) <= 1
    /\ InFlight # {} => (sem.permits = 0 /\ cell = None)
    /\ \A d \in Callers :
         /\ ret[d].awaited = "Ok"
              => /\ pc[d] \in {"acquire", "returned"}
                 /\ lit[d] = IdleFetch /\ orr[d] = IdleFetch
                 /\ pc[d] = "returned" => (ret[d].val = "Ok" /\ ret[d].engine = cell)
         /\ (pc[d] = "init" /\ ret[d].awaited # "none")
              => ret[d].awaited \in {"Err", "Panic"}

\* A caller that waited on another caller's initialization returned the
\* engine that initialization built.
C5_WaiterGotEngine ==
    \E d \in Callers :
        /\ pc[d] = "returned" /\ ret[d].awaited = "Ok"
        /\ ret[d].val = "Ok" /\ ret[d].engine = cell
        /\ Unwrap(cell).by # d

(***************************************************************************)
(* SpecCost: PricingLookup::calculate_cost (lookup.rs)                     *)
(***************************************************************************)
\* Token counts are i64. They are held in units of 2^56 tokens, so that an
\* i64 is -128..127 units and a wrapped sum is the sum modulo 256 units.
I64_MIN == -128
I64_MAX == 127

\* i64 `a + b`: what is stored when the sum leaves the range and the build
\* does not check for overflow.
wrapping_add(a, b) == ((a + b - I64_MIN) % (I64_MAX - I64_MIN + 1)) + I64_MIN
overflows(a, b) == a + b > I64_MAX \/ a + b < I64_MIN

\* An f64 price: finite (v price units), infinite or NaN.
Finite(v) == [class |-> "finite", v |-> v]
NaN == [class |-> "nan", v |-> 0]
Infinity == [class |-> "inf", v |-> 0]
is_finite(x) == x.class = "finite"

Returned(value) == [kind |-> "returned", value |-> value]
Panicked == [kind |-> "panicked", value |-> 0]

\* safe_price without the sign test.
safe_price_finite_only(opt) ==
    IF IsSome(opt) /\ is_finite(Unwrap(opt)) THEN Unwrap(opt).v ELSE 0

safe_price(opt) ==
    IF IsSome(opt) /\ is_finite(Unwrap(opt)) /\ Unwrap(opt).v >= 0 THEN Unwrap(opt).v ELSE 0

\* calculate_cost after self.lookup(model_id) gave result. `output + reasoning`
\* is an i64 sum: out of range it panics in a build with overflow checks and
\* wraps in a build without. The products and sums of the prices and counts
\* used here are exact in f64.
calculate_cost(result, input, output, cache_read, cache_write, reasoning, overflow_checks) ==
    IF result = None THEN Returned(0)
    ELSE IF overflows(output, reasoning) /\ overflow_checks THEN Panicked
    ELSE LET p == Unwrap(result).pricing
             input_cost == input * safe_price(p.input_cost_per_token)
             output_cost == wrapping_add(output, reasoning) * safe_price(p.output_cost_per_token)
             cache_read_cost == cache_read * safe_price(p.cache_read_input_token_cost)
             cache_write_cost == cache_write * safe_price(p.cache_creation_input_token_cost)
         IN Returned(input_cost + output_cost + cache_read_cost + cache_write_cost)

PriceKinds == {None, Some(Finite(2)), Some(Finite(-1)), Some(NaN), Some(Infinity)}
CachePriceKinds == {None, Some(Finite(1)), Some(Finite(-1))}
CostIds == {"gpt-5", "totally-unknown-xyz"}
InputCounts == {0, 1}
OutputCounts == {0, 1, I64_MAX}
CacheCounts == {0, 3}
\* calculate_cost is called while the memo holds fewer ids than this.
MaxCostCalls == 1

\* PricingLookup::new over a LiteLLM catalog of one model, whose price
\* components may be missing, negative or not finite.
InitCost ==
    \E p_in \in PriceKinds, p_out \in PriceKinds, p_cr \in CachePriceKinds,
       p_cw \in CachePriceKinds :
        LET l_data == [k \in {"gpt-5"} |->
                          [input_cost_per_token |-> p_in,
                           output_cost_per_token |-> p_out,
                           cache_creation_input_token_cost |-> p_cw,
                           cache_read_input_token_cost |-> p_cr]]
            e == new(l_data, <<>>, <<"gpt-5">>, <<>>)
        IN /\ litellm = e.litellm
           /\ openrouter = e.openrouter
           /\ litellm_keys = e.litellm_keys
           /\ openrouter_keys = e.openrouter_keys
           /\ litellm_lower = e.litellm_lower
           /\ openrouter_lower = e.openrouter_lower
           /\ openrouter_model_part = e.openrouter_model_part
           /\ query = None
           /\ answer = None
           /\ lookup_cache = <<>> /\ calls = <<>>
           /\ bill = None /\ messages = <<>> /\ segments = <<>> /\ contributions = <<>>
           /\ graph = None
           /\ IdleCache
           /\ IdleService

\* One call of calculate_cost: the memoised lookup, then the arithmetic.
CalculateCost ==
    \E model_id \in CostIds, input \in InputCounts, output \in OutputCounts,
       reasoning \in OutputCounts, cache_read \in CacheCounts,
       cache_write \in CacheCounts, overflow_checks \in BOOLEAN :
        LET hit == model_id \in DOMAIN lookup_cache
            result == IF hit THEN lookup_cache[model_id]
                      ELSE lookup_with_source(Engine, model_id, None)
        IN /\ Cardinality(DOMAIN lookup_cache) < MaxCostCalls
           /\ lookup_cache' = IF hit THEN lookup_cache
                                     ELSE Insert(lookup_cache, model_id, result)
           /\ bill' = Some([model_id |-> model_id, input |-> input, output |-> output,
                            cache_read |-> cache_read, cache_write |-> cache_write,
                            reasoning |-> reasoning,
                            outcome |-> calculate_cost(result, input, output, cache_read,
                                                       cache_write, reasoning, overflow_checks)])
           /\ EngineUnchanged
           /\ UNCHANGED <<calls, messages, segments, contributions, graph>>
           /\ UNCHANGED <<vars_cache, vars_service>>

NextCost == CalculateCost

SpecCost == InitCost /\ [][NextCost]_vars

\* The price component the cost formula uses: the entry's, or 0 when it is
\* missing, not finite or negative.
ClampedPrice(opt) ==
    IF opt = None \/ Unwrap(opt).class # "finite" \/ Unwrap(opt).v < 0 THEN 0
    ELSE Unwrap(opt).v

\* C17: calculate_cost returns input*p_in + (output+reasoning)*p_out +
\* cache_read*p_cr + cache_write*p_cw over the clamped prices of the resolved
\* entry, 0 when the model does not resolve, and never a negative cost for
\* non-negative token counts.
C17_CostFormula ==
    IsSome(bill) =>
      LET b == Unwrap(bill)
          r == lookup_with_source(Engine, b.model_id, None)
          p == Unwrap(r).pricing
          expected == IF r = None THEN 0
                      ELSE b.input * ClampedPrice(p.input_cost_per_token)
                           + (b.output + b.reasoning) * ClampedPrice(p.output_cost_per_token)
                           + b.cache_read * ClampedPrice(p.cache_read_input_token_cost)
                           + b.cache_write * ClampedPrice(p.cache_creation_input_token_cost)
      IN /\ b.outcome = Returned(expected)
         /\ b.outcome.value >= 0

(***************************************************************************)
(* Aggregation of usage records (src/core/src/aggregator.rs)               *)
(***************************************************************************)
\* Costs are f64. They are held as whole numbers of cost units in a binary
\* float of F64_MANTISSA_BITS significant bits (f64 has 53), every sum and
\* quotient rounded to nearest, ties to even, as IEEE 754 does.
F64_MANTISSA_BITS == 3

RECURSIVE Pow2(_)
Pow2(n) == IF n = 0 THEN 1 ELSE 2 * Pow2(n - 1)

Abs(x) == IF x < 0 THEN -x ELSE x

\* n / d rounded to the nearest integer, ties to even (n >= 0, d > 0).
RoundHalfEvenDiv(n, d) ==
    LET q == n \div d
        r == n % d
    IN IF 2 * r > d \/ (2 * r = d /\ q % 2 = 1) THEN q + 1 ELSE q

\* The spacing of the floats around magnitude x.
RECURSIVE Quantum(_)
Quantum(x) == IF x < Pow2(F64_MANTISSA_BITS) THEN 1 ELSE 2 * Quantum(x \div 2)

\* The float nearest to the real number x.
round_f64(x) ==
    LET q == Quantum(Abs(x))
        r == q * RoundHalfEvenDiv(Abs(x), q)
    IN IF x < 0 THEN -r ELSE r

\* A sum that is not rounded.
exact_add(a, b) == a + b

\* f64 `a + b`.
f64_add(a, b) == round_f64(a + b)

ZeroTokens == [input |-> 0, output |-> 0, cache_read |-> 0, cache_write |-> 0,
               reasoning |-> 0]

AddTokens(a, b) ==
    [input |-> a.input + b.input, output |-> a.output + b.output,
     cache_read |-> a.cache_read + b.cache_read,
     cache_write |-> a.cache_write + b.cache_write,
     reasoning |-> a.reasoning + b.reasoning]

\* DayAccumulator::default().
DefaultAccumulator ==
    [totals |-> [tokens |-> 0, cost |-> 0, messages |-> 0],
     token_breakdown |-> ZeroTokens,
     sources |-> <<>>]

\* or_insert_with of add_message and of merge: the entry of a new key.
NewSource(source, model_id, provider_id) ==
    [source |-> source, model_id |-> model_id, provider_id |-> provider_id,
     tokens |-> ZeroTokens, cost |-> 0, messages |-> 0]

SourceKey(msg) == msg.source \o ":" \o msg.model_id

add_message(acc, msg) ==
    LET total_tokens == msg.tokens.input + msg.tokens.output + msg.tokens.cache_read
                        + msg.tokens.cache_write + msg.tokens.reasoning
        key == SourceKey(msg)
        source == IF key \in DOMAIN acc.sources THEN acc.sources[key]
                  ELSE NewSource(msg.source, msg.model_id, msg.provider_id)
        updated == [source EXCEPT !.tokens = AddTokens(source.tokens, msg.tokens),
                                  !.cost = f64_add(source.cost, msg.cost),
                                  !.messages = source.messages + 1]
    IN [totals |-> [tokens |-> acc.totals.tokens + total_tokens,
                    cost |-> f64_add(acc.totals.cost, msg.cost),
                    messages |-> acc.totals.messages + 1],
        token_breakdown |-> AddTokens(acc.token_breakdown, msg.tokens),
        sources |-> [k \in DOMAIN acc.sources \cup {key} |->
                        IF k = key THEN updated ELSE acc.sources[k]]]

\* self.merge(other). The keys of other.sources are visited in the map's
\* iteration order; each visit touches its own key only.
merge(self, other) ==
    LET entry(key) ==
            LET source == other.sources[key]
                e == IF key \in DOMAIN self.sources THEN self.sources[key]
                     ELSE NewSource(source.source, source.model_id, source.provider_id)
            IN [e EXCEPT !.tokens = AddTokens(e.tokens, source.tokens),
                         !.cost = f64_add(e.cost, source.cost),
                         !.messages = e.messages + source.messages]
    IN [totals |-> [tokens |-> self.totals.tokens + other.totals.tokens,
                    cost |-> f64_add(self.totals.cost, other.totals.cost),
                    messages |-> self.totals.messages + other.totals.messages],
        token_breakdown |-> AddTokens(self.token_breakdown, other.token_breakdown),
        sources |-> [k \in DOMAIN self.sources \cup DOMAIN other.sources |->
                        IF k \in DOMAIN other.sources THEN entry(k) ELSE self.sources[k]]]

\* The fold closure: acc.entry(msg.date).or_default().add_message(&msg).
FoldStep(acc, msg) ==
    LET entry == IF msg.date \in DOMAIN acc THEN acc[msg.date] ELSE DefaultAccumulator
    IN [d \in DOMAIN acc \cup {msg.date} |->
           IF d = msg.date THEN add_message(entry, msg) ELSE acc[d]]

\* The reduce closure: every (date, acc) of b is merged into a.
ReduceStep(a, b) ==
    [d \in DOMAIN a \cup DOMAIN b |->
        IF d \in DOMAIN b
        THEN merge(IF d \in DOMAIN a THEN a[d] ELSE DefaultAccumulator, b[d])
        ELSE a[d]]

\* The dates of the records, in the order of their strings; the first is
\* what timestamp_to_date gives for a timestamp it cannot represent.
Dates == <<"", "2026-01-01", "2026-01-02", "2026-01-03", "2027-03-05">>

\* into_contribution. The sources vector comes out of the map in any order
\* and is held as the set of its elements.
into_contribution(acc, date) ==
    [date |-> date, totals |-> acc.totals, intensity |-> 0,
     token_breakdown |-> acc.token_breakdown,
     sources |-> {acc.sources[k] : k \in DOMAIN acc.sources}]

\* The contributions as into_iter of the map may yield them, without the
\* sort: here from the last date to the first.
RECURSIVE contributions_unsorted(_, _)
contributions_unsorted(daily_map, i) ==
    IF i > Len(Dates) THEN <<>>
    ELSE contributions_unsorted(daily_map, i + 1)
         \o (IF Dates[i] \in DOMAIN daily_map
             THEN <<into_contribution(daily_map[Dates[i]], Dates[i])>> ELSE <<>>)

\* The contributions of the dates from position i on, sorted by date.
RECURSIVE SortedContributions(_, _)
SortedContributions(daily_map, i) ==
    IF i > Len(Dates) THEN <<>>
    ELSE (IF Dates[i] \in DOMAIN daily_map
          THEN <<into_contribution(daily_map[Dates[i]], Dates[i])>> ELSE <<>>)
         \o SortedContributions(daily_map, i + 1)

\* cost / max_cost as an f64, in units of 2^-(F64_MANTISSA_BITS + 2), for
\* 0 < cost <= max_cost; a quotient below 1/8 is given as 1 unit: positive
\* and under every threshold.
Ratio(cost, max_cost) ==
    IF 8 * cost < max_cost THEN 1
    ELSE LET e == CHOOSE x \in 0..3 : Pow2(x) * cost >= max_cost
                                      /\ Pow2(x) * cost < 2 * max_cost
             mant == RoundHalfEvenDiv(cost * Pow2(F64_MANTISSA_BITS - 1 + e), max_cost)
         IN mant * Pow2(3 - e)

\* The thresholds 0.75, 0.5 and 0.25 in the units of Ratio.
Threshold(quarters) == quarters * Pow2(F64_MANTISSA_BITS)

\* intensity with the >= 0.5 and >= 0.25 tests exchanged.
Intensity_swapped(cost, max_cost) ==
    IF cost <= 0 THEN 0
    ELSE LET ratio == Ratio(cost, max_cost)
         IN IF ratio >= Threshold(3) THEN 4
            ELSE IF ratio >= Threshold(1) THEN 3
            ELSE IF ratio >= Threshold(2) THEN 2
            ELSE 1

\* The intensity of one day of calculate_intensities, max_cost > 0.
Intensity(cost, max_cost) ==
    IF cost <= 0 THEN 0
    ELSE LET ratio == Ratio(cost, max_cost)
         IN IF ratio >= Threshold(3) THEN 4
            ELSE IF ratio >= Threshold(2) THEN 3
            ELSE IF ratio >= Threshold(1) THEN 2
            ELSE 1

calculate_intensities(cs) ==
    LET max_cost == Max({0} \cup {cs[i].totals.cost : i \in 1..Len(cs)})
    IN IF max_cost = 0 THEN cs
       ELSE [i \in 1..Len(cs) |->
                [cs[i] EXCEPT !.intensity = Intensity(cs[i].totals.cost, max_cost)]]

\* A piece of the message vector handed to one fold: messages lo..hi, the
\* next one to fold, and the piece's local map.
Segment(lo, hi) == [lo |-> lo, hi |-> hi, next |-> lo, map |-> <<>>]
Folded(seg) == seg.next > seg.hi

Replace(seq, i, n, pieces) ==
    SubSeq(seq, 1, i - 1) \o pieces \o SubSeq(seq, i + n, Len(seq))

\* rayon splits a piece no fold has started on.
Split ==
    \E i \in 1..Len(segments) :
        LET seg == segments[i]
        IN /\ seg.next = seg.lo
           /\ \E k \in seg.lo..(seg.hi - 1) :
                 segments' = Replace(segments, i, 1, <<Segment(seg.lo, k), Segment(k + 1, seg.hi)>>)
           /\ UNCHANGED <<bill, messages, contributions, graph>>
           /\ UNCHANGED <<vars_resolve, vars_cache, vars_service>>

\* The fold closure takes the next message of a piece.
FoldMessage ==
    \E i \in 1..Len(segments) :
        LET seg == segments[i]
        IN /\ ~Folded(seg)
           /\ segments' = [segments EXCEPT ![i].map = FoldStep(seg.map, messages[seg.next]),
                                           ![i].next = seg.next + 1]
           /\ UNCHANGED <<bill, messages, contributions, graph>>
           /\ UNCHANGED <<vars_resolve, vars_cache, vars_service>>

\* The reduce closure joins two neighbouring folded pieces, left into right.
Reduce ==
    \E i \in 1..(Len(segments) - 1) :
        LET a == segments[i]
            b == segments[i + 1]
        IN /\ Folded(a) /\ Folded(b)
           /\ segments' = Replace(segments, i, 2,
                              <<[lo |-> a.lo, hi |-> b.hi, next |-> b.hi + 1,
                                 map |-> ReduceStep(a.map, b.map)]>>)
           /\ UNCHANGED <<bill, messages, contributions, graph>>
           /\ UNCHANGED <<vars_resolve, vars_cache, vars_service>>

\* The rest of aggregate_by_date: sort by date, calculate_intensities, return.
Collect ==
    /\ contributions = None
    /\ Len(segments) = 1 /\ Folded(segments[1])
    /\ contributions' = Some(calculate_intensities(SortedContributions(segments[1].map, 1)))
    /\ UNCHANGED <<bill, messages, segments, graph>>
    /\ UNCHANGED <<vars_resolve, vars_cache, vars_service>>

\* aggregate_by_date of no messages.
ReturnEmpty ==
    /\ contributions = None
    /\ messages = <<>>
    /\ contributions' = Some(<<>>)
    /\ UNCHANGED <<bill, messages, segments, graph>>
    /\ UNCHANGED <<vars_resolve, vars_cache, vars_service>>

NextAggregate == Split \/ FoldMessage \/ Reduce \/ Collect \/ ReturnEmpty

MaxMessages == 3

Vectors(universe) ==
    UNION {[1..n -> universe] : n \in 0..MaxMessages}

\* aggregate_by_date entered with some vector of messages.
InitOver(universe) ==
    /\ messages \in Vectors(universe)
    /\ segments = IF messages = <<>> THEN <<>> ELSE <<Segment(1, Len(messages))>>
    /\ contributions = None
    /\ bill = None /\ graph = None
    /\ IdleResolve /\ IdleCache /\ IdleService

Tokens(n) == [input |-> n, output |-> 2 * n, cache_read |-> 4 * n, cache_write |-> 8 * n,
              reasoning |-> 16 * n]

\* Messages of two days, of two models, one of them seen through two providers.
UsageMessages ==
    {[source |-> k[1], model_id |-> k[2], provider_id |-> k[3], date |-> Dates[d + 1],
      tokens |-> Tokens(k[4]), cost |-> c] :
        k \in {<<"claude", "sonnet", "anthropic", 1>>, <<"claude", "sonnet", "bedrock", 1>>,
               <<"codex", "gpt-5", "openai", 2>>},
        d \in 1..2, c \in {1, 8}}

InitAggregate == InitOver(UsageMessages)

SpecAggregate == InitAggregate /\ [][NextAggregate]_vars

\* The map one fold over the vector v builds on acc.
RECURSIVE FoldVector(_, _)
FoldVector(acc, v) ==
    IF v = <<>> THEN acc ELSE FoldVector(FoldStep(acc, Head(v)), Tail(v))

\* What aggregate_by_date returns for the vector v when nothing is split.
SequentialOf(v) == calculate_intensities(SortedContributions(FoldVector(<<>>, v), 1))
Sequential == SequentialOf(messages)

\* The vectors holding the records of v in some order.
Arrangements(v) ==
    {[i \in 1..Len(v) |-> v[p[i]]] : p \in Permutations(1..Len(v))}

\* C18: whatever the split of the messages and the order of the merges, the
\* days returned carry the totals (tokens, cost, messages) and the token
\* breakdown of the unsplit fold.
C18_TotalsIgnoreSchedule ==
    IsSome(contributions) =>
      LET cs == Unwrap(contributions)
      IN /\ Len(cs) = Len(Sequential)
         /\ \A i \in 1..Len(cs) :
               /\ cs[i].date = Sequential[i].date
               /\ cs[i].totals = Sequential[i].totals
               /\ cs[i].token_breakdown = Sequential[i].token_breakdown

\* C19: for the records given, in whatever order they stand in the vector,
\* however the vector is split and the pieces merged, each day returned
\* carries the same SourceContributions: those of an unsplit fold.
C19_SourcesIgnoreSchedule ==
    IsSome(contributions) =>
      LET cs == Unwrap(contributions)
      IN \A v \in Arrangements(messages) :
            /\ Len(cs) = Len(SequentialOf(v))
            /\ \A i \in 1..Len(cs) : cs[i].sources = SequentialOf(v)[i].sources

(***************************************************************************)
(* SpecIntensity: aggregate_by_date over days of graded cost               *)
(***************************************************************************)
\* Messages of one model over three days; a cost may be zero or negative.
GradedMessages ==
    {[source |-> "claude", model_id |-> "sonnet", provider_id |-> "anthropic",
      date |-> Dates[dc[1] + 1], tokens |-> Tokens(1), cost |-> dc[2]] :
        dc \in {<<1, 8>>, <<1, 7>>, <<1, 0>>, <<1, -1>>, <<2, 6>>, <<2, 5>>, <<2, 1>>,
                <<3, 2>>, <<3, 4>>, <<3, 0>>}}

InitIntensity == InitOver(GradedMessages)

SpecIntensity == InitIntensity /\ [][NextAggregate]_vars

DailyCosts == {Unwrap(contributions)[i].totals.cost : i \in 1..Len(Unwrap(contributions))}

\* The grade the real quotient cost / m has: 4 from 3/4 up, 3 from 1/2,
\* 2 from 1/4, 1 above 0, else 0; for m # 0.
Grade(cost, m) ==
    LET at_least(quarters) == IF m > 0 THEN 4 * cost >= quarters * m
                              ELSE 4 * cost <= quarters * m
        positive == IF m > 0 THEN cost > 0 ELSE cost < 0
    IN IF at_least(3) THEN 4 ELSE IF at_least(2) THEN 3 ELSE IF at_least(1) THEN 2
       ELSE IF positive THEN 1 ELSE 0

\* C20 as stated: with M the maximum daily cost, every intensity is 0 when
\* M = 0, and otherwise the grade of cost / M.
C20_IntensityOfMaxDailyCost ==
    (IsSome(contributions) /\ Unwrap(contributions) # <<>>) =>
      LET cs == Unwrap(contributions)
          M == Max(DailyCosts)
      IN \A i \in 1..Len(cs) :
            cs[i].intensity = IF M = 0 THEN 0 ELSE Grade(cs[i].totals.cost, M)

\* C20, amended: with M the larger of 0 and the maximum daily cost, every
\* intensity is 0 when M = 0; otherwise a day of cost <= 0 has intensity 0,
\* a day of cost > 0 has at least 1, and it has at least 2, 3, 4 when cost/M
\* reaches 0.25, 0.5, 0.75 and only when cost/M reaches that threshold less
\* one rounding error of the f64 quotient. So a day at exactly 75% of M has 4,
\* a day at exactly 25% has at least 2, the day of cost M has 4, and
\* intensity does not decrease with cost.
C20_IntensityOfFloatRatio ==
    (IsSome(contributions) /\ Unwrap(contributions) # <<>>) =>
      LET cs == Unwrap(contributions)
          M == Max({0} \cup DailyCosts)
          P == Pow2(F64_MANTISSA_BITS)
      IN /\ \A i \in 1..Len(cs) :
              LET c == cs[i].totals.cost
                  n == cs[i].intensity
              IN IF M = 0 \/ c <= 0 THEN n = 0
                 ELSE /\ n \in 1..4
                      /\ \A q \in 1..3 :
                            /\ 4 * c >= q * M => n >= q + 1
                            /\ n >= q + 1 => 4 * P * c >= q * (P - 1) * M
                      /\ (c = M => n = 4)
         /\ \A i, j \in 1..Len(cs) :
               cs[i].totals.cost <= cs[j].totals.cost => cs[i].intensity <= cs[j].intensity

\* Days of cost 8, 6 and 2 are returned: the second at exactly 75% of the
\* maximum, the third at exactly 25%.
C20_DaysAtThresholds ==
    /\ IsSome(contributions) /\ Len(Unwrap(contributions)) = 3
    /\ LET cs == Unwrap(contributions)
       IN /\ cs[1].totals.cost = 8 /\ cs[1].intensity = 4
          /\ cs[2].totals.cost = 6 /\ cs[2].intensity = 4
          /\ cs[3].totals.cost = 2 /\ cs[3].intensity = 2

(***************************************************************************)
(* SpecGraph: a pricing-aware graph call (packages/core/src/lib.rs):       *)
(* the parsed messages are priced, aggregated by date and summarised       *)
(***************************************************************************)
\* The cost one parsed message is given. Gemini bills its reasoning tokens as
\* output and its cached tokens at nothing; Cursor and Amp keep the cost
\* they were parsed with unless the calculated one is above zero.
priced_cost(result, msg, overflow_checks) ==
    LET t == msg.tokens
    IN IF msg.source = "gemini"
       THEN IF overflows(t.output, t.reasoning) /\ overflow_checks THEN Panicked
            ELSE calculate_cost(result, t.input, wrapping_add(t.output, t.reasoning),
                                0, 0, 0, overflow_checks)
       ELSE LET calculated == calculate_cost(result, t.input, t.output, t.cache_read,
                                             t.cache_write, t.reasoning, overflow_checks)
            IN IF msg.source \in {"cursor", "amp"} /\ calculated.kind = "returned"
                  /\ ~(calculated.value > 0)
               THEN Returned(msg.cost)
               ELSE calculated

RECURSIVE SumInts(_)
SumInts(seq) == IF seq = <<>> THEN 0 ELSE Head(seq) + SumInts(Tail(seq))

\* Iterator::sum over f64: the values added one by one, first to last.
RECURSIVE SumF64(_, _)
SumF64(acc, seq) == IF seq = <<>> THEN acc ELSE SumF64(f64_add(acc, Head(seq)), Tail(seq))

Costs(cs) == [i \in 1..Len(cs) |-> cs[i].totals.cost]
TokenCounts(cs) == [i \in 1..Len(cs) |-> cs[i].totals.tokens]

\* calculate_summary. average_per_day is held as the pair it is the quotient
\* of; the two vectors of names come out of hash sets and are held as sets.
calculate_summary(cs) ==
    LET total_cost == SumF64(0, Costs(cs))
        active_days == Cardinality({i \in 1..Len(cs) : cs[i].totals.cost > 0})
        all_sources == UNION {cs[i].sources : i \in 1..Len(cs)}
    IN [total_tokens |-> SumInts(TokenCounts(cs)),
        total_cost |-> total_cost,
        total_days |-> Len(cs),
        active_days |-> active_days,
        average_per_day |-> IF active_days > 0 THEN <<total_cost, active_days>> ELSE <<0, 1>>,
        max_cost_in_single_day |-> Max({0} \cup {cs[i].totals.cost : i \in 1..Len(cs)}),
        sources |-> {x.source : x \in all_sources},
        models |-> {x.model_id : x \in all_sources}]

\* &c.date[0..4]
Year(date) == SubSeq(date, 1, 4)

DateRank(date) == CHOOSE i \in 1..Len(Dates) : Dates[i] = date

\* The YearSummary of one year: its days are added in the order they stand in;
\* start and end are the least and the greatest of their dates.
YearSummary(cs, year) ==
    LET days == SelectSeq(cs, LAMBDA c : Year(c.date) = year)
        ranks == {DateRank(days[i].date) : i \in 1..Len(days)}
    IN [year |-> year,
        total_tokens |-> SumInts(TokenCounts(days)),
        total_cost |-> SumF64(0, Costs(days)),
        range_start |-> Dates[Min(ranks)],
        range_end |-> Dates[Max(ranks)]]

\* years.sort_by year: the years of the dates from position i on, each once.
RECURSIVE SortedYears(_, _)
SortedYears(cs, i) ==
    IF i > Len(Dates) THEN <<>>
    ELSE (IF /\ Len(Dates[i]) >= 4
             /\ \E k \in 1..Len(cs) : Year(cs[k].date) = Year(Dates[i])
             /\ \A j \in 1..(i - 1) : Len(Dates[j]) >= 4 => Year(Dates[j]) # Year(Dates[i])
          THEN <<YearSummary(cs, Year(Dates[i]))>> ELSE <<>>)
         \o SortedYears(cs, i + 1)

\* calculate_years. The slice [0..4] of a date shorter than four bytes panics.
calculate_years(cs) ==
    IF \E i \in 1..Len(cs) : Len(cs[i].date) < 4 THEN Panicked
    ELSE Returned(SortedYears(cs, 1))

\* generate_graph_result: the summary, then the years, then the result; the
\* clock and the version of meta are left out.
generate_graph_result(cs) ==
    LET summary == calculate_summary(cs)
        years == calculate_years(cs)
    IN IF years.kind = "panicked" THEN [pc |-> "panicked", at |-> "calculate_years"]
       ELSE [pc |-> "returned", summary |-> summary, years |-> years.value,
             date_range_start |-> IF cs = <<>> THEN "" ELSE cs[1].date,
             date_range_end |-> IF cs = <<>> THEN "" ELSE cs[Len(cs)].date,
             contributions |-> cs]

\* parse_all_messages_with_pricing after the parsers: every message is priced
\* through the memoised lookup; then aggregate_by_date is entered.
ApplyPricing ==
    /\ graph = [pc |-> "parsed"]
    /\ \E overflow_checks \in BOOLEAN :
         LET result(i) == lookup_with_source(Engine, messages[i].model_id, None)
             cost(i) == priced_cost(result(i), messages[i], overflow_checks)
             ids == {messages[i].model_id : i \in 1..Len(messages)}
         IN /\ lookup_cache' = [id \in ids |-> lookup_with_source(Engine, id, None)]
            /\ IF \E i \in 1..Len(messages) : cost(i).kind = "panicked"
               THEN /\ graph' = [pc |-> "panicked", at |-> "calculate_cost"]
                    /\ UNCHANGED <<messages, segments>>
               ELSE /\ graph' = [pc |-> "priced"]
                    /\ messages' = [i \in 1..Len(messages) |->
                                       [messages[i] EXCEPT !.cost = cost(i).value]]
                    /\ segments' = IF messages = <<>> THEN <<>>
                                   ELSE <<Segment(1, Len(messages))>>
    /\ EngineUnchanged
    /\ UNCHANGED <<calls, bill, contributions>>
    /\ UNCHANGED <<vars_cache, vars_service>>

GenerateGraphResult ==
    /\ graph = [pc |-> "priced"]
    /\ IsSome(contributions)
    /\ graph' = generate_graph_result(Unwrap(contributions))
    /\ EngineUnchanged
    /\ UNCHANGED <<lookup_cache, calls, bill, messages, segments, contributions>>
    /\ UNCHANGED <<vars_cache, vars_service>>

\* The steps of aggregate_by_date wait for the segment that ApplyPricing
\* hands over; only the early return for no messages needs none.
NextGraph == ApplyPricing \/ NextAggregate \/ GenerateGraphResult

TokensOf(input, cache_read) ==
    [input |-> input, output |-> 0, cache_read |-> cache_read, cache_write |-> 0,
     reasoning |-> 0]

\* Parsed messages of three tools on one day: of a priced and of an
\* unknown model, with input or cached tokens, Cursor's with the cost of its
\* CSV; and messages of another day, of another year and without a date.
GraphMessages ==
    {[source |-> k[1], model_id |-> k[2], provider_id |-> "", date |-> Dates[2],
      tokens |-> TokensOf(k[3], k[4]), cost |-> k[5]] :
        k \in {<<"claude", "gpt-5", 1, 0, 0>>, <<"claude", "unknown-model-x", 1, 0, 0>>,
               <<"gemini", "gpt-5", 1, 0, 0>>, <<"gemini", "gpt-5", 0, 1, 0>>,
               <<"cursor", "gpt-5", 1, 0, 2>>, <<"cursor", "unknown-model-x", 1, 0, 2>>}}
    \cup {[source |-> "claude", model_id |-> "gpt-5", provider_id |-> "", date |-> Dates[d],
           tokens |-> TokensOf(1, 0), cost |-> 0] : d \in {1, 3, 5}}

\* The price of every kind of token of "gpt-5" is one unit.
GraphCatalog ==
    [k \in {"gpt-5"} |-> [input_cost_per_token |-> Some(Finite(1)),
                          output_cost_per_token |-> Some(Finite(1)),
                          cache_creation_input_token_cost |-> Some(Finite(1)),
                          cache_read_input_token_cost |-> Some(Finite(1))]]

\* The messages are parsed, the pricing service is there, nothing is priced.
InitGraph ==
    /\ messages \in Vectors(GraphMessages)
    /\ segments = <<>> /\ contributions = None /\ bill = None
    /\ graph = [pc |-> "parsed"]
    /\ LET e == new(GraphCatalog, <<>>, <<"gpt-5">>, <<>>)
       IN /\ litellm = e.litellm
          /\ openrouter = e.openrouter
          /\ litellm_keys = e.litellm_keys
          /\ openrouter_keys = e.openrouter_keys
          /\ litellm_lower = e.litellm_lower
          /\ openrouter_lower = e.openrouter_lower
          /\ openrouter_model_part = e.openrouter_model_part
    /\ query = None /\ answer = None
    /\ lookup_cache = <<>> /\ calls = <<>>
    /\ IdleCache /\ IdleService

SpecGraph == InitGraph /\ [][NextGraph]_vars

\* calculate_cost of one message, as it stands in the vector.
CostOf(msg) ==
    calculate_cost(lookup_with_source(Engine, msg.model_id, None), msg.tokens.input,
                   msg.tokens.output, msg.tokens.cache_read, msg.tokens.cache_write,
                   msg.tokens.reasoning, FALSE).value

\* C21: the total_cost of the summary returned is the sum of calculate_cost
\* over the messages processed, whatever their source.
C21_TotalCostIsSumOfCalculatedCosts ==
    graph.pc = "returned" =>
      graph.summary.total_cost = SumInts([i \in 1..Len(messages) |-> CostOf(messages[i])])

\* The days of cs whose date begins with the four characters of year.
DaysOf(cs, year) == SelectSeq(cs, LAMBDA c : Len(c.date) >= 4 /\ Year(c.date) = year)

Prefixes(cs) == {Year(cs[i].date) : i \in {k \in 1..Len(cs) : Len(cs[k].date) >= 4}}

\* The place of a year among the years of Dates, which stand in ascending order.
YearRank(year) == Min({i \in 1..Len(Dates) : Len(Dates[i]) >= 4 /\ Year(Dates[i]) = year})

YearsAreOnePerPrefix(cs, years, summary) ==
    /\ {years[k].year : k \in 1..Len(years)} = Prefixes(cs)
    /\ Len(years) = Cardinality(Prefixes(cs))
    /\ \A j, k \in 1..Len(years) : j < k => YearRank(years[j].year) < YearRank(years[k].year)
    /\ \A k \in 1..Len(years) :
         LET days == DaysOf(cs, years[k].year)
             ranks == {DateRank(days[i].date) : i \in 1..Len(days)}
         IN /\ years[k].total_tokens = SumInts(TokenCounts(days))
            /\ years[k].total_cost = SumF64(0, Costs(days))
            /\ DateRank(years[k].range_start) = Min(ranks)
            /\ DateRank(years[k].range_end) = Max(ranks)
    /\ SumInts([k \in 1..Len(years) |-> years[k].total_tokens]) = summary.total_tokens

\* C22: once the contributions are handed to generate_graph_result, the
\* years returned are one per distinct 4-character date prefix, ascending,
\* each with the sums and the least and greatest date of its days, and their
\* token totals add up to the summary's.
C22_YearsOnePerPrefix ==
    graph.pc \in {"returned", "panicked"} =>
      /\ graph.pc = "returned"
      /\ YearsAreOnePerPrefix(Unwrap(contributions), graph.years, graph.summary)

\* C28: generate_graph_result never panics in calculate_years, whatever
\* the dates of the contributions are.
C28_GraphResultWithoutPanic ==
    ~(graph.pc = "panicked" /\ graph.at = "calculate_years")

\* C23: aggregate_by_date returns one contribution per distinct date of
\* the messages, in strictly ascending order of the dates, whatever the order
\* of the messages and the splits of the fold were.
C23_OneDayPerDateAscending ==
    IsSome(contributions) =>
      LET cs == Unwrap(contributions)
          dates == {messages[i].date : i \in 1..Len(messages)}
      IN /\ {cs[i].date : i \in 1..Len(cs)} = dates
         /\ Len(cs) = Cardinality(dates)
         /\ \A j, k \in 1..Len(cs) : j < k => DateRank(cs[j].date) < DateRank(cs[k].date)

\* Messages of a later day stand before those of an earlier one, one day has
\* two messages, and both days are returned.
C23_DescendingInputTwoDays ==
    /\ IsSome(contributions)
    /\ Len(Unwrap(contributions)) = 2
    /\ Len(messages) = 3
    /\ DateRank(messages[1].date) > DateRank(messages[2].date)
    /\ messages[3].date = messages[1].date

\* What a fetch that found its cache entry looks like: returned Ok with the
\* entry, no request sent, no task spawned, nothing saved.
HitOf(f, entry) ==
    /\ f.pc = "done" /\ f.result = "Ok" /\ f.data = entry
    /\ f.hist = <<>> /\ f.waits = <<>> /\ f.tasks = <<>> /\ ~f.saved

\* C24: a fetch that finds a valid cache entry of its source returns that
\* catalog, sends no HTTP request then or later, and leaves the entry as it
\* is. A fetch is dropped, and so back at IdleFetch, when its caller returns.
C24_CacheHitSkipsNetwork ==
    [][\A c \in Callers :
         /\ (lit[c].pc = "cache" /\ lit'[c] \notin {lit[c], IdleFetch} /\ IsSome(disk.litellm)) =>
              /\ HitOf(lit'[c], Unwrap(disk.litellm))
              /\ disk'.litellm = disk.litellm
         /\ (orr[c].pc = "cache" /\ orr'[c] \notin {orr[c], IdleFetch} /\ IsSome(disk.openrouter)) =>
              /\ HitOf(orr'[c], Unwrap(disk.openrouter))
              /\ disk'.openrouter = disk.openrouter
         /\ lit[c].pc = "done" => lit'[c] \in {lit[c], IdleFetch}
         /\ orr[c].pc = "done" => orr'[c] \in {orr[c], IdleFetch}]_vars

\* LiteLLM was served from its cache entry while OpenRouter, without one, went
\* to the network.
C24_LitellmHitOpenrouterFetched ==
    /\ IsSome(disk.litellm)
    /\ HitOf(lit[1], Unwrap(disk.litellm))
    /\ orr[1].pc = "done" /\ orr[1].hist # <<>>

\* The attempts of a fetch that failed with a retryable condition.
FailedAttempts(f) ==
    Cardinality({k \in 1..Len(f.hist) : f.hist[k] = NetErr \/ Retryable(f.hist[k])})

\* The waits of a fetch are those of the claim up to its failed attempt n, and
\* no request was sent before the wait of the attempt before it.
BackoffUpTo(f, n) ==
    /\ f.waits = [k \in 1..n |-> 200 * (2 ^ (k - 1))]
    /\ Len(f.hist) <= Len(f.waits) + 1

\* C27: after the k-th failed attempt of a fetch a wait of 200 * 2^(k-1) ms
\* is performed, 200, 400 and 800 ms after the 1st, 2nd and 3rd, and no
\* request goes out before the wait that precedes it.
C27_BackoffAfterEachFailure ==
    \A c \in Callers :
      /\ BackoffUpTo(lit[c], FailedAttempts(lit[c]))
      /\ BackoffUpTo(orr[c], FailedAttempts(orr[c]))

(***************************************************************************)
(* SpecContains: contains_model_id applied to a key and an id              *)
(***************************************************************************)
ContainsIds == {"gpt-4", "o1", "4"}

\* Lowercased keys that hold the id once or twice, with letters, digits,
\* separators or nothing around and between the occurrences, and keys that
\* do not hold it.
ContainsKeys(id) ==
    {before \o id \o between \o after :
        before \in {"", "x", "my-", "openai/"},
        between \in {"", "-" \o id, "x/" \o id, "1/" \o id, "." \o id},
        after \in {"", "o", ".1", "-mini"}}
    \cup {"claude-3", ""}

InitContains ==
    /\ IdleResolve /\ IdleCache /\ IdleService /\ IdleUsage

ContainsModelId ==
    \E model_id \in ContainsIds :
      \E key \in ContainsKeys(model_id) :
        /\ query' = Some([key |-> key, model_id |-> model_id])
        /\ answer' = Some(contains_model_id(key, model_id))
        /\ UNCHANGED <<litellm, openrouter, litellm_keys, openrouter_keys,
                       litellm_lower, openrouter_lower, openrouter_model_part,
                       lookup_cache, calls>>
        /\ UNCHANGED <<vars_cache, vars_service, vars_usage>>

NextContains == ContainsModelId

SpecContains == InitContains /\ [][NextContains]_vars

\* The occurrence of model_id at position pos of key has, on each side, a
\* character that is not alphanumeric or the edge of the key.
BoundaryRespecting(key, model_id, pos) ==
    /\ pos = 1 \/ ~is_alphanumeric(CharAt(key, pos - 1))
    /\ pos + Len(model_id) = Len(key) + 1
       \/ ~is_alphanumeric(CharAt(key, pos + Len(model_id)))

\* C25: contains_model_id is true exactly when some occurrence of the id in
\* the key respects the boundary on both sides, be it the first or a later one.
C25_SomeOccurrenceAtBoundary ==
    IsSome(query) =>
      LET key == Unwrap(query).key
          model_id == Unwrap(query).model_id
      IN Unwrap(answer) <=> \E pos \in Occurrences(key, model_id) :
                               BoundaryRespecting(key, model_id, pos)

\* The id as lookup_with_source first looks it up: alias-canonicalized and
\* lowercased, nothing stripped.
FullId(model_id) ==
    LET alias == resolve_alias(model_id)
    IN to_lowercase(IF IsSome(alias) THEN Unwrap(alias) ELSE model_id)

\* C26: whenever the full id resolves, lookup_with_source returns that
\* result and no stripped id's; with "gpt-5" and "gpt-5-codex" both in the
\* catalog, "gpt-5-codex" resolves to "gpt-5-codex".
C26_UnstrippedIdFirst ==
    IsSome(query) =>
      LET q == Unwrap(query)
          full == do_lookup(Engine, q.force_source, FullId(q.model_id))
      IN /\ IsSome(full) => answer = full
         /\ (/\ q.model_id = "gpt-5-codex"
             /\ {"gpt-5", "gpt-5-codex"} \subseteq DOMAIN litellm
             /\ q.force_source # Some("openrouter"))
            => (IsSome(answer) /\ Unwrap(answer).matched_key = "gpt-5-codex")

\* Both keys are in the catalog and "gpt-5-codex" was asked for: the entry of
\* "gpt-5" is there to be taken by the fallback strip, and is not.
C26_CodexBesideBase ==
    /\ Asked("gpt-5-codex", None)
    /\ {"gpt-5", "gpt-5-codex"} \subseteq DOMAIN litellm
    /\ IsSome(do_lookup(Engine, None, "gpt-5"))
    /\ IsSome(answer) /\ Unwrap(answer).matched_key = "gpt-5-codex"

\* The engines that can be built from the LiteLLM catalog alone and from the
\* OpenRouter catalog alone: one for each order the new map may be iterated in.
LitellmAlone == {new(litellm, <<>>, l_keys, <<>>) : l_keys \in SortedKeyLists(DOMAIN litellm)}
OpenrouterAlone == {new(<<>>, openrouter, <<>>, o_keys) : o_keys \in SortedKeyLists(DOMAIN openrouter)}

\* A forced lookup answered as the unforced lookup of the engine alone does,
\* with an entry of the catalog named source.
ForcedAs(alone, source, catalog) ==
    /\ answer = lookup_with_source(alone, Unwrap(query).model_id, None)
    /\ IsSome(answer) => /\ Unwrap(answer).source = source
                         /\ Unwrap(answer).matched_key \in DOMAIN catalog

\* C29: a lookup forced to one source answers as the unforced lookup of an
\* engine built from that catalog alone, and never with an entry of the
\* other catalog.
C29_ForcedSourceIsCatalogAlone ==
    IsSome(query) =>
      /\ Unwrap(query).force_source = Some("litellm") =>
           \A alone \in LitellmAlone : ForcedAs(alone, "LiteLLM", litellm)
      /\ Unwrap(query).force_source = Some("openrouter") =>
           \A alone \in OpenrouterAlone : ForcedAs(alone, "OpenRouter", openrouter)

(***************************************************************************)
(* SpecFanoutLive: the fan-out under a scheduler that runs every task that *)
(* can run, with requests that all complete or time out                    *)
(***************************************************************************)
\* The fan-out at the point where a task has to wait: the tasks of the first
\* MAX_CONCURRENT_REQUESTS models hold the permits with their requests in
\* flight, the others wait in acquire. Each behaviour has one outcome of the
\* endpoints requests: the success or one of the early returns.
InitFanoutLive ==
    /\ IdleResolve /\ IdleCache /\ IdleUsage
    /\ cell = None
    /\ sem = [permits |-> 0, closed |-> FALSE]
    /\ pc = [c \in Callers |-> IF c = 1 THEN "init" ELSE "idle"]
    /\ budget = [c \in Callers |-> 0]
    /\ ret = [c \in Callers |-> NoReturn]
    /\ lit = [c \in Callers |-> IF c = 1 THEN Done(FreshFetch, "Ok", CachedLitellm) ELSE IdleFetch]
    /\ LET holders == {"openai/gpt-" \o ModelLetters[i] : i \in 1..MAX_CONCURRENT_REQUESTS}
           spawned == OrAfterList([FreshFetch EXCEPT !.pc = "list", !.hist = <<200>>],
                                  ListedModels)
       IN orr = [c \in Callers |->
                   IF c = 1
                   THEN [spawned EXCEPT
                           !.tasks = [m \in ListedModels |->
                                        [st |-> IF m \in holders THEN "inflight" ELSE "wait",
                                         resp |-> "none"]],
                           !.permits = 0]
                   ELSE IdleFetch]
    /\ disk = [litellm |-> Some(CachedLitellm), openrouter |-> None]
    /\ \E outcome \in DetailOutcomes : env = [FullEnv EXCEPT !.detail = {outcome}]

\* tokio polls a spawned task that can take its permit, a request completes
\* or times out, the collection loop and the join are polled when ready.
SpecFanoutLive ==
    /\ InitFanoutLive /\ [][NextFanout]_vars
    /\ WF_vars(\E c \in Callers : OrTaskAcquire(c))
    /\ WF_vars(\E c \in Callers : OrTaskRespond(c))
    /\ WF_vars(\E c \in Callers : OrCollect(c))
    /\ WF_vars(\E c \in Callers : FinishOk(c))

\* fetch_all_models has returned: every listed model's task has finished and
\* every permit is back.
FanoutReturned ==
    /\ orr[1].pc = "done"
    /\ DOMAIN orr[1].tasks = ListedModels
    /\ \A m \in ListedModels : orr[1].tasks[m].st = "done"
    /\ orr[1].permits = MAX_CONCURRENT_REQUESTS

\* The task of model m is in state st; the tasks are gone once the caller
\* has returned.
TaskIs(m, st) == m \in DOMAIN orr[1].tasks /\ orr[1].tasks[m].st = st

\* C30: no task of the fan-out waits for its permit forever, and
\* fetch_all_models returns with every task finished and every permit given
\* back, on success as on each early return.
C30_FanoutTerminates ==
    /\ <>FanoutReturned
    /\ <>[](\A m \in ListedModels : ~TaskIs(m, "wait"))

\* Every request failed, so every task took an early return, and the fetch
\* has returned with all permits back.
C30_ReturnedAfterFailures ==
    /\ FanoutReturned
    /\ \A m \in ListedModels : orr[1].tasks[m].resp # "ok"
    /\ orr[1].data = <<>>

====
